---- MODULE Spec2Model ----
(***************************************************************************)
(* DeltaV OPC tag import (import_deltav_opc_tags.py, the console script,   *)
(* and import_deltav_opc_tags_ui.py, the Perspective variant): the         *)
(* queue-based OPC browse and the mirroring of the discovered tags into    *)
(* the Ignition tag store.                                                 *)
(*                                                                         *)
(* A Python string is a sequence of tokens.  A display name is one token   *)
(* ("A", "CV", "#Properties"), "/" is the path separator and " " a blank,  *)
(* so concatenation is \o, split('/') is Split and strip() is Strip.       *)
(***************************************************************************)
EXTENDS Naturals, Integers, Sequences, FiniteSets, TLC

VARIABLES
    variant,          \* "cli": import_deltav_opc_tags.py, "ui": import_deltav_opc_tags_ui.py
    cfg,              \* the job's parameters (main's configuration block / import_deltav_tags_ui's arguments)
    ns,               \* the remote namespace: display name and child list of every node id
    pc,               \* where the job is
    run,              \* 1 for the first invocation of the job, 2 for the re-run, ...
    faults,           \* how many more remote / store calls the environment may fail
    browse_queue,     \* browse_opc_iterative: list of (node_id, relative_path)
    visited,          \* browse_opc_iterative: set of node ids
    found_tags,       \* browse_opc_iterative: list of tag dictionaries
    iteration_count,  \* browse_opc_iterative
    current,          \* (current_node_id, current_relative_path) of the iteration in progress
    items,            \* the items of the current node not processed yet
    job_tags,         \* main: found_tags as returned by the browse
    log,              \* warnings and errors printed / sent to the progress callback
    browse_calls,     \* history: the system.opc.browseServer calls, in order
    store,            \* the tag provider's content: canonical path -> tag
    store0,           \* history: the tag provider's content when the run in progress started
    store_calls,      \* history: system.tag.exists / system.tag.configure / system.opc.readValue calls
    mat,              \* create_tags_from_list's locals
    preview,          \* the ignition paths the dry run rendered
    result,           \* the dictionary the job returns
    jobs,             \* the locals of the invocations that run side by side on one gateway
    twin              \* the walk of the console script that the walk of the ui script is compared with

vars == <<variant, cfg, ns, pc, run, faults, browse_queue, visited, found_tags,
          iteration_count, current, items, job_tags, log, browse_calls, store,
          store0, store_calls, mat, preview, result, jobs, twin>>

walkVars == <<browse_queue, visited, found_tags, iteration_count, current, items>>

----------------------------------------------------------------------------
(* Bounds of the model *)

\* max_iterations is drawn from 1..MaxIterBound and the scripts' default
MaxIterBound == 3

\* how many browseServer calls may fail (raise or return None) in a run
MaxBrowseFaults == 1

\* how many system.tag.configure calls may raise in a run
MaxWriteFaults == 1

\* how many times the job is invoked in a row against the same store
MaxRuns == 2

\* tags in the large namespace beyond the first ProgressEvery
ExtraLeaves == 1

\* browse_opc_iterative's default max_iterations
DefaultMaxIterations == 1000

\* create_tags_from_list's default chunk_size
DefaultChunkSize == 50

\* the number of sample paths the UI dry run shows
SampleLimit == 10

None == [kind |-> "none"]

\* data_type=None: auto-detect the data type (ui)
AutoType == "None"

\* "Processing tag" is logged every 50 tags
ProgressEvery == 50

----------------------------------------------------------------------------
(* Python string operations on token sequences *)

RECURSIVE SplitAcc(_, _, _)
SplitAcc(s, parts, part) ==
    IF s = <<>> THEN Append(parts, part)
    ELSE IF Head(s) = "/" THEN SplitAcc(Tail(s), Append(parts, part), <<>>)
    ELSE SplitAcc(Tail(s), parts, Append(part, Head(s)))

\* s.split('/')
Split(s) == SplitAcc(s, <<>>, <<>>)

RECURSIVE Join(_)
\* '/'.join(parts)
Join(parts) ==
    IF parts = <<>> THEN <<>>
    ELSE IF Len(parts) = 1 THEN parts[1]
    ELSE parts[1] \o <<"/">> \o Join(Tail(parts))

RECURSIVE LStrip(_)
LStrip(s) == IF s # <<>> /\ Head(s) = " " THEN LStrip(Tail(s)) ELSE s

RECURSIVE RStrip(_)
RStrip(s) ==
    IF s # <<>> /\ s[Len(s)] = " " THEN RStrip(SubSeq(s, 1, Len(s) - 1)) ELSE s

\* s.strip()
Strip(s) == RStrip(LStrip(s))

\* s.endswith('/')
EndsWithSlash(s) == s # <<>> /\ s[Len(s)] = "/"

\* path_parts[:-1]
AllButLast(parts) == SubSeq(parts, 1, Len(parts) - 1)

\* '[' + tag_provider + ']'
Bracket(tag_provider) == <<"[">> \o tag_provider \o <<"]">>

\* seq[:n]
Take(seq, n) == SubSeq(seq, 1, IF Len(seq) < n THEN Len(seq) ELSE n)

RECURSIVE SelectParts(_)
\* [f for f in parts if f.strip()]
SelectParts(parts) ==
    IF parts = <<>> THEN <<>>
    ELSE IF Strip(Head(parts)) # <<>> THEN <<Head(parts)>> \o SelectParts(Tail(parts))
    ELSE SelectParts(Tail(parts))

Range(seq) == {seq[i] : i \in 1..Len(seq)}

----------------------------------------------------------------------------
(* The remote namespaces *)

NodeIds == {"r", "a", "b", "d", "p", "c1", "c2", "c3"}

Props == "#Properties"

Namespace(disp, kids) ==
    [disp |-> [n \in NodeIds |-> IF n \in DOMAIN disp THEN disp[n] ELSE "X"],
     kids |-> [n \in NodeIds |-> IF n \in DOMAIN kids THEN kids[n] ELSE <<>>]]

\* Root -> A -> {CV, B -> CV}
NsScenario ==
    Namespace("r" :> "Root" @@ "a" :> "A" @@ "b" :> "B" @@ "c1" :> "CV" @@ "c2" :> "CV",
              "r" :> <<"a">> @@ "a" :> <<"c1", "b">> @@ "b" :> <<"c2">>)

\* B lists its parent A and the base node as children
NsCycle ==
    Namespace("r" :> "Root" @@ "a" :> "A" @@ "b" :> "B" @@ "c1" :> "CV" @@ "c2" :> "CV",
              "r" :> <<"a">> @@ "a" :> <<"c1", "b">> @@ "b" :> <<"a", "r", "c2">>)

\* the leaf c1 and the folder D are children of both A and B
NsShared ==
    Namespace("r" :> "Root" @@ "a" :> "A" @@ "b" :> "B" @@ "d" :> "D"
                  @@ "c1" :> "CV" @@ "c2" :> "CV",
              "r" :> <<"a", "b">> @@ "a" :> <<"c1", "d">> @@ "b" :> <<"c1", "d">>
                  @@ "d" :> <<"c2">>)

\* a #Properties pseudo-folder holding a CV, and a plain leaf X
NsProps ==
    Namespace("r" :> "Root" @@ "a" :> "A" @@ "p" :> Props @@ "d" :> "X"
                  @@ "c1" :> "CV" @@ "c2" :> "CV",
              "r" :> <<"p", "a", "d">> @@ "p" :> <<"c1">> @@ "a" :> <<"c2", "p">>)

\* a CV (c1) that has a CV child (c3); A lists c2 twice, and d is a second A/CV
NsNested ==
    Namespace("r" :> "Root" @@ "a" :> "A" @@ "c1" :> "CV" @@ "c2" :> "CV" @@ "c3" :> "CV"
                  @@ "d" :> "CV",
              "r" :> <<"c1", "a">> @@ "c1" :> <<"c3">> @@ "a" :> <<"c2", "c2", "d">>)

\* the base node is itself named CV, and its child A lists it as a child
NsLoop == Namespace("r" :> "CV" @@ "a" :> "A", "r" :> <<"a">> @@ "a" :> <<"r">>)

\* A lists the leaf c1 ProgressEvery + ExtraLeaves times
NsMany ==
    Namespace("r" :> "Root" @@ "a" :> "A" @@ "c1" :> "CV",
              "r" :> <<"a">> @@ "a" :> [i \in 1..(ProgressEvery + ExtraLeaves) |-> "c1"])

\* A lists the leaf c1 twice
NsTwice ==
    Namespace("r" :> "Root" @@ "a" :> "A" @@ "c1" :> "CV",
              "r" :> <<"a">> @@ "a" :> <<"c1", "c1">>)

\* nothing below the base node
NsEmpty == Namespace("r" :> "Root", "r" :> <<>>)

Namespaces == {NsScenario, NsCycle, NsShared, NsProps, NsNested, NsLoop, NsEmpty}

BaseNode == "r"

----------------------------------------------------------------------------
(* browse_opc_iterative / browse_opc_iterative_ui *)

\* Normalize search_tag_names to always be a list (or None)
SearchList(search_tag_names) ==
    IF search_tag_names.kind = "none" THEN None
    ELSE IF search_tag_names.kind = "str"
         THEN [kind |-> "list", v |-> <<search_tag_names.v>>]
    ELSE search_tag_names

\* matches_search
MatchesSearch(search_list, display_name) ==
    IF search_list.kind # "none" THEN display_name \in Range(search_list.v) ELSE FALSE

ContinuesAfterMatchNever(matches_search) == FALSE

ContinuesAfterMatchConsoleOnly(matches_search) == matches_search /\ variant = "cli"

\* Don't try to browse into it - continue to next item
ContinuesAfterMatch(matches_search) == matches_search

ItemRelativePathNameOnly(current_relative_path, display_name) == <<display_name>>

\* Build the relative path
ItemRelativePath(current_relative_path, display_name) ==
    IF current_relative_path # <<>>
    THEN current_relative_path \o <<"/">> \o <<display_name>>
    ELSE <<display_name>>

\* the dictionary appended to found_tags
TagInfo(item_node_id, display_name, item_relative_path) ==
    IF variant = "ui"
    THEN [node_id |-> item_node_id, display_name |-> display_name,
          relative_path |-> item_relative_path, opc_server |-> cfg.opc_server]
    ELSE [node_id |-> item_node_id, display_name |-> display_name,
          relative_path |-> item_relative_path]

LoopContinuesPastLimit ==
    browse_queue # <<>> /\ iteration_count <= cfg.max_iterations

\* while browse_queue and iteration_count < max_iterations
LoopContinues ==
    browse_queue # <<>> /\ iteration_count < cfg.max_iterations

IsIgnoredNever(display_name) == FALSE

\* Skip the #Properties folder that appears in OPC UA
IsIgnored(display_name) == display_name = Props

IsFolderAlways(outcome, child_items) == TRUE

\* if child_items and len(child_items) > 0: is_folder = True
IsFolder(outcome, child_items) == outcome = "ok" /\ Len(child_items) > 0

ShouldEnqueueEveryFolder(is_folder, item_node_id) == is_folder

\* if is_folder and item_node_id not in visited
ShouldEnqueue(is_folder, item_node_id) == is_folder /\ item_node_id \notin visited

QueueAfterErrorDropped(queue) == <<>>

\* except Exception: print the error, continue with next item in queue
QueueAfterError(queue) == queue

ReachedLimitWithQueueLeft ==
    iteration_count >= cfg.max_iterations /\ browse_queue # <<>>

\* if iteration_count >= max_iterations: WARNING
ReachedLimit == iteration_count >= cfg.max_iterations

\* return found_tags
ReturnedTags == found_tags

\* opc_server = '': no OPC connection is named
NoServer == ""

\* no walk is being compared with another
NoTwin == [phase |-> "off"]

\* what a browseServer call may answer: the node's children, None, or an
\* exception; without a connection name there are no children to answer
ServerOutcomes ==
    IF cfg.opc_server = NoServer THEN {"none", "raise"}
    ELSE {"ok"} \cup (IF faults.browse > 0 THEN {"none", "raise"} ELSE {})

\* a walk that is compared with an earlier one gets the answers the earlier
\* walk got, in the same order
BrowseOutcomes ==
    IF twin.phase = "second"
    THEN IF Len(browse_calls) < Len(twin.calls)
         THEN {twin.calls[Len(browse_calls) + 1].outcome} \cap ServerOutcomes
         ELSE {}
    ELSE ServerOutcomes

BrowseCall(node, path, kind, outcome) ==
    [node |-> node, path |-> path, kind |-> kind, outcome |-> outcome, run |-> run]

SpendBrowse(outcome) ==
    IF outcome = "ok" \/ cfg.opc_server = NoServer THEN faults
    ELSE [faults EXCEPT !.browse = @ - 1]

\* One iteration of the while loop up to the for loop: pop the head of the
\* queue and browse it.
BrowseNext ==
    /\ pc = "browse"
    /\ LoopContinues
    /\ \E outcome \in BrowseOutcomes :
        LET node == Head(browse_queue)[1] IN
        /\ iteration_count' = iteration_count + 1
        /\ current' = Head(browse_queue)
        /\ browse_calls' = Append(browse_calls, BrowseCall(node, Head(browse_queue)[2], "queue", outcome))
        /\ faults' = SpendBrowse(outcome)
        /\ IF outcome = "ok"
           THEN /\ browse_queue' = Tail(browse_queue)
                /\ items' = ns.kids[node]
                /\ pc' = IF ns.kids[node] = <<>> THEN "browse" ELSE "items"
                /\ log' = log
           ELSE IF outcome = "none"
           THEN /\ browse_queue' = Tail(browse_queue)
                /\ items' = <<>>
                /\ pc' = "browse"
                /\ log' = log
           ELSE /\ browse_queue' = QueueAfterError(Tail(browse_queue))
                /\ items' = <<>>
                /\ pc' = "browse"
                /\ log' = Append(log, [type |-> "browse_error", node |-> node])
    /\ UNCHANGED <<jobs, twin, store0, variant, cfg, ns, run, visited, found_tags, job_tags, store,
                   store_calls, mat, preview, result>>

\* The body of "for item in items" for the next item.
ProcessItem ==
    /\ pc = "items"
    /\ items # <<>>
    /\ LET item_node_id == Head(items)
           display_name == ns.disp[item_node_id]
           item_relative_path == ItemRelativePath(current[2], display_name)
           rest == Tail(items)
           next_pc == IF rest = <<>> THEN "browse" ELSE "items"
       IN
       /\ items' = rest
       /\ pc' = next_pc
       /\ IF IsIgnored(display_name)
          THEN UNCHANGED <<found_tags, browse_queue, visited, browse_calls, faults>>
          ELSE LET matches_search == MatchesSearch(SearchList(cfg.search_tag_names),
                                                   display_name)
               IN
               /\ found_tags' = IF matches_search
                                THEN Append(found_tags,
                                            TagInfo(item_node_id, display_name,
                                                    item_relative_path))
                                ELSE found_tags
               /\ IF ContinuesAfterMatch(matches_search)
                  THEN UNCHANGED <<browse_queue, visited, browse_calls, faults>>
                  ELSE \E outcome \in BrowseOutcomes :
                      LET is_folder == IsFolder(outcome, ns.kids[item_node_id]) IN
                      /\ browse_calls' = Append(browse_calls,
                                                BrowseCall(item_node_id, item_relative_path,
                                                           "probe", outcome))
                      /\ faults' = SpendBrowse(outcome)
                      /\ IF ShouldEnqueue(is_folder, item_node_id)
                         THEN /\ browse_queue' = Append(browse_queue, <<item_node_id, item_relative_path>>)
                              /\ visited' = visited \cup {item_node_id}
                         ELSE UNCHANGED <<browse_queue, visited>>
    /\ UNCHANGED <<jobs, twin, store0, variant, cfg, ns, run, iteration_count, current, job_tags, log,
                   store, store_calls, mat, preview, result>>

\* The loop ends: the warning, the summary, return found_tags.
BrowseReturn ==
    /\ pc = "browse"
    /\ ~LoopContinues
    /\ log' = IF ReachedLimit THEN Append(log, [type |-> "limit_warning"]) ELSE log
    /\ job_tags' = ReturnedTags
    /\ pc' = "main"
    /\ UNCHANGED <<jobs, twin, store0, variant, cfg, ns, run, faults, walkVars, browse_calls, store,
                   store_calls, mat, preview, result>>

----------------------------------------------------------------------------
(* The Ignition tag store behind system.tag.exists / system.tag.configure.  *)
(* A tag path names a tag by its provider and its non-empty path segments,  *)
(* so the store keys its tags by the canonical form of the path.            *)

RECURSIVE DropThroughBracket(_)
DropThroughBracket(s) ==
    IF s = <<>> THEN <<>>
    ELSE IF Head(s) = "]" THEN Tail(s)
    ELSE DropThroughBracket(Tail(s))

\* the path after its '[provider]' prefix
AfterProvider(path) ==
    IF path # <<>> /\ Head(path) = "[" THEN DropThroughBracket(Tail(path)) ELSE path

RECURSIVE NonEmptyParts(_)
NonEmptyParts(parts) ==
    IF parts = <<>> THEN <<>>
    ELSE IF Head(parts) # <<>> THEN <<Head(parts)>> \o NonEmptyParts(Tail(parts))
    ELSE NonEmptyParts(Tail(parts))

\* the canonical form of a tag path string
TagPath(path) == Join(NonEmptyParts(Split(AfterProvider(path))))

\* system.tag.exists(full_path)
TagExists(st, full_path) == TagPath(full_path) \in DOMAIN st

\* the path of the tag that system.tag.configure(base_path, [{'name': name, ...}], 'o') writes
ConfiguredPath(base_path, name) == TagPath(base_path \o <<"/">> \o name)

\* system.tag.configure(base_path, [tag_config], 'o'): collision policy 'o' overwrites
TagConfigure(st, base_path, name, tag) ==
    LET key == ConfiguredPath(base_path, name) IN
    [k \in DOMAIN st \cup {key} |-> IF k = key THEN tag ELSE st[k]]

FolderTag == [tagType |-> "Folder"]

OpcTag(opc_server, opc_node_id, data_type) ==
    [tagType |-> "AtomicTag", dataType |-> data_type, opcServer |-> opc_server,
     opcItemPath |-> opc_node_id]

ExistsCall(full_path) == [op |-> "exists", path |-> TagPath(full_path), run |-> run]

ConfigureCall(base_path, name, tagType, outcome) ==
    [op |-> "configure", path |-> ConfiguredPath(base_path, name), tagType |-> tagType,
     outcome |-> outcome, run |-> run]

ReadCall(opc_node_id, outcome) ==
    [op |-> "readValue", node |-> opc_node_id, outcome |-> outcome, run |-> run]

\* what a system.tag.configure call may do: write the tag, or raise
WriteOutcomes == {"ok"} \cup (IF faults.write > 0 THEN {"raise"} ELSE {})

----------------------------------------------------------------------------
(* create_folder_structure / create_folder_structure_ui *)

FolderPathWithoutParent(parent_path, folder_name) == folder_name

\* Build full folder path
FolderPath(parent_path, folder_name) ==
    IF parent_path # <<>>
    THEN IF EndsWithSlash(parent_path) THEN parent_path \o folder_name
         ELSE parent_path \o <<"/">> \o folder_name
    ELSE folder_name

\* Prepend provider if specified
WithProvider(tag_provider, path) ==
    IF tag_provider # <<>> THEN Bracket(tag_provider) \o path ELSE path

FolderNeedsCreateAlways(st, full_path) == TRUE

\* Check if folder already exists: only an absent folder is configured
FolderNeedsCreate(st, full_path) == ~TagExists(st, full_path)

\* The effect of one call, given what the configure call (if it is made) does:
\* the store after it, the store calls made, whether configure raised, and
\* the folder path returned.
CreateFolderStructure(st, tag_provider, parent_path, folder_name, outcome) ==
    LET folder_path == FolderPath(parent_path, folder_name)
        full_path == WithProvider(tag_provider, folder_path)
        config_parent == WithProvider(tag_provider, parent_path)
    IN
    IF ~FolderNeedsCreate(st, full_path)
    THEN [store |-> st, calls |-> <<ExistsCall(full_path)>>, raised |-> FALSE,
          ret |-> folder_path]
    ELSE [store |-> IF outcome = "ok"
                    THEN TagConfigure(st, config_parent, folder_name, FolderTag)
                    ELSE st,
          calls |-> <<ExistsCall(full_path),
                      ConfigureCall(config_parent, folder_name, "Folder", outcome)>>,
          raised |-> outcome # "ok",
          ret |-> folder_path]

----------------------------------------------------------------------------
(* create_nested_folders: one pass of "for folder_name in folders" *)

NestedFolderStep(st, tag_provider, current_path, raw_folder_name, outcome) ==
    LET folder_name == Strip(raw_folder_name)
        new_path == FolderPath(current_path, folder_name)
        full_path_with_provider == Bracket(tag_provider) \o new_path
        config_parent == Bracket(tag_provider) \o current_path
    IN
    IF folder_name = <<>>
    THEN [store |-> st, calls |-> <<>>, raised |-> FALSE, ret |-> current_path]
    ELSE IF TagExists(st, full_path_with_provider)
    THEN [store |-> st, calls |-> <<ExistsCall(full_path_with_provider)>>,
          raised |-> FALSE, ret |-> new_path]
    ELSE [store |-> IF outcome = "ok"
                    THEN TagConfigure(st, config_parent, folder_name, FolderTag)
                    ELSE st,
          calls |-> <<ExistsCall(full_path_with_provider),
                      ConfigureCall(config_parent, folder_name, "Folder", outcome)>>,
          raised |-> outcome # "ok",
          ret |-> new_path]

----------------------------------------------------------------------------
(* detect_opc_data_type *)

\* type(value).__name__.lower() of the values system.opc.readValue may return,
\* and the lowered keys of type_map, cut into tokens so that "key in value_type"
\* (substring) is "contiguous subsequence".
TypeName(t) ==
    CASE t = "float" -> <<"float">>
      [] t = "java.lang.Float" -> <<"java.lang.", "float">>
      [] t = "java.lang.Double" -> <<"java.lang.", "double">>
      [] t = "int" -> <<"int">>
      [] t = "long" -> <<"long">>
      [] t = "java.lang.Integer" -> <<"java.lang.", "int", "eger">>
      [] t = "java.lang.Long" -> <<"java.lang.", "long">>
      [] t = "bool" -> <<"bool">>
      [] t = "java.lang.Boolean" -> <<"java.lang.", "bool", "ean">>
      [] t = "str" -> <<"str">>
      [] t = "unicode" -> <<"unicode">>
      [] t = "java.lang.String" -> <<"java.lang.", "str", "ing">>
      [] t = "java.util.Date" -> <<"java.util.", "date">>

TypeMap ==
    "float" :> "Float8" @@ "java.lang.Float" :> "Float4" @@ "java.lang.Double" :> "Float8"
    @@ "int" :> "Int4" @@ "long" :> "Int8" @@ "java.lang.Integer" :> "Int4"
    @@ "java.lang.Long" :> "Int8" @@ "bool" :> "Boolean" @@ "java.lang.Boolean" :> "Boolean"
    @@ "str" :> "String" @@ "unicode" :> "String" @@ "java.lang.String" :> "String"

\* key.lower() in value_type.lower()
IsSubstring(key, value_type) ==
    \E i \in 1..Len(value_type) :
        /\ i + Len(key) - 1 <= Len(value_type)
        /\ SubSeq(value_type, i, i + Len(key) - 1) = key

\* The values the read may answer in the model: an exception, None, or a value
\* of the named type.
ReadOutcomes == {"raise", "none", "java.lang.Float", "java.lang.Integer", "java.util.Date"}

NeedsDetectAlways(data_type) == TRUE

\* if data_type is None: auto-detect
NeedsDetect(data_type) == data_type = AutoType

\* a value is read only to auto-detect the type
ReadsFor(data_type) == IF NeedsDetect(data_type) THEN ReadOutcomes ELSE {"none"}

DetectOpcDataTypeWithoutDefault(outcome) ==
    IF outcome \in {"raise", "none"} THEN {AutoType}
    ELSE LET matching == {k \in DOMAIN TypeMap : IsSubstring(TypeName(k), TypeName(outcome))}
         IN IF matching = {} THEN {AutoType} ELSE {TypeMap[k] : k \in matching}

\* The types detect_opc_data_type can return for a read outcome.  The loop over
\* type_map.items() returns at the first key that matches, and the order of a
\* dictionary's items is not fixed by the language, so every matching key's
\* type is possible.
DetectOpcDataType(outcome) ==
    IF outcome \in {"raise", "none"} THEN {"Float8"}
    ELSE LET matching == {k \in DOMAIN TypeMap : IsSubstring(TypeName(k), TypeName(outcome))}
         IN IF matching = {} THEN {"Float8"} ELSE {TypeMap[k] : k \in matching}

----------------------------------------------------------------------------
(* create_opc_tag / create_opc_tag_ui *)

\* parent_path
TagParentPath(tag_provider, tag_path) ==
    IF tag_provider # <<>> THEN Bracket(tag_provider) \o tag_path ELSE tag_path

\* full_tag_path
FullTagPath(tag_provider, tag_path, tag_name) ==
    IF tag_provider # <<>>
    THEN IF tag_path # <<>> THEN Bracket(tag_provider) \o tag_path \o <<"/">> \o tag_name
         ELSE Bracket(tag_provider) \o tag_name
    ELSE IF tag_path # <<>> THEN tag_path \o <<"/">> \o tag_name ELSE tag_name

TagNeedsCreateAlways(st, full_tag_path) == TRUE

\* Check if tag already exists: only an absent tag is configured
TagNeedsCreate(st, full_tag_path) == ~TagExists(st, full_tag_path)

\* The effect of one call.  data_type is None (auto-detect, ui only) or a type
\* name; read is the outcome of the value read and detected the type chosen
\* from it, used only when the type is auto-detected.
CreateOpcTag(st, tag_provider, tag_path, tag_name, opc_server, opc_node_id, data_type, read, detected, outcome) ==
    LET parent_path == TagParentPath(tag_provider, tag_path)
        full_tag_path == FullTagPath(tag_provider, tag_path, tag_name)
        auto == NeedsDetect(data_type)
        the_type == IF auto THEN detected ELSE data_type
        reads == IF auto THEN <<ReadCall(opc_node_id, read)>> ELSE <<>>
    IN
    IF ~TagNeedsCreate(st, full_tag_path)
    THEN [store |-> st, calls |-> <<ExistsCall(full_tag_path)>>, raised |-> FALSE,
          ret |-> TRUE]
    ELSE [store |-> IF outcome = "ok"
                    THEN TagConfigure(st, parent_path, tag_name,
                                      OpcTag(opc_server, opc_node_id, the_type))
                    ELSE st,
          calls |-> <<ExistsCall(full_tag_path)>> \o reads
                    \o <<ConfigureCall(parent_path, tag_name, "AtomicTag", outcome)>>,
          raised |-> outcome # "ok",
          ret |-> outcome = "ok"]

----------------------------------------------------------------------------
(* create_tags_from_list / create_tags_from_list_ui *)

MatInit ==
    [root_segs |-> <<>>, root_path |-> <<>>, folders_created |-> 0, folder_cache |-> {},
     tags_created |-> 0, idx |-> 0, current_path |-> <<>>, folder_structure |-> <<>>,
     sleeps |-> 0, progress |-> 0]

\* if '/' in root_folder
IsNestedRoot(root_folder) == variant = "ui" /\ "/" \in Range(root_folder)

\* folder_key
FolderKey(current_path, folder_name) == current_path \o <<"/">> \o folder_name

CacheMissAlways(folder_cache, folder_key) == TRUE

\* if folder_key not in folder_cache
CacheMiss(folder_cache, folder_key) == folder_key \notin folder_cache

\* the cached branch: the path is built without touching the store
CachedPath(current_path, folder_name) ==
    IF EndsWithSlash(current_path) THEN current_path \o folder_name
    ELSE current_path \o <<"/">> \o folder_name

SleepsAfterEveryTag(idx, chunk_size) == 1

\* if (idx + 1) % chunk_size == 0: time.sleep(0.5)
SleepsAfter(idx, chunk_size) == IF (idx + 1) % chunk_size = 0 THEN 1 ELSE 0

\* The head of "for idx, tag_info in enumerate(found_tags)" for the tag at m.idx:
\* the progress message, the split of the relative path, current_path = root_path.
BeginTag(m) ==
    LET tag_info == job_tags[m.idx + 1] IN
    [m EXCEPT !.current_path = m.root_path,
              !.folder_structure = AllButLast(Split(tag_info.relative_path)),
              !.progress = @ + (IF (m.idx + 1) % ProgressEvery = 0 THEN 1 ELSE 0)]

PcForTag(m) == IF m.folder_structure # <<>> THEN "folders" ELSE "tag"

SpendWrite(raised) == IF raised THEN [faults EXCEPT !.write = @ - 1] ELSE faults

LogRaisedSilent(raised, type, calls) == log

\* the message printed by "except Exception as e" around system.tag.configure
LogRaised(raised, type, calls) ==
    IF raised THEN Append(log, [type |-> type, path |-> calls[Len(calls)].path]) ELSE log

MainBranchDryRunFirst ==
    IF cfg.dry_run THEN "dry"
    ELSE IF Len(job_tags) = 0 THEN "none"
    ELSE "live"

MainBranchAlwaysLive == IF Len(job_tags) = 0 THEN "none" ELSE "live"

\* main / import_deltav_tags_ui after the browse: nothing found, dry run, or live
MainBranch ==
    IF Len(job_tags) = 0 THEN "none"
    ELSE IF cfg.dry_run THEN "dry"
    ELSE "live"

\* Create root folder.  The ui script walks a nested root segment by segment
\* (create_nested_folders); otherwise one create_folder_structure call.
CreateRoot ==
    /\ pc = "main"
    /\ MainBranch = "live"
    /\ IF IsNestedRoot(cfg.root_folder)
       THEN /\ mat' = [MatInit EXCEPT !.root_segs = Split(cfg.root_folder)]
            /\ pc' = "nested"
            /\ UNCHANGED <<store, store_calls, faults, log>>
       ELSE \E outcome \in WriteOutcomes :
            LET r == CreateFolderStructure(store, cfg.tag_provider, <<>>, cfg.root_folder, outcome)
                m == BeginTag([MatInit EXCEPT !.root_path = r.ret, !.folders_created = 1])
            IN
            /\ store' = r.store
            /\ store_calls' = store_calls \o r.calls
            /\ faults' = SpendWrite(r.raised)
            /\ log' = LogRaised(r.raised, "folder_error", r.calls)
            /\ mat' = m
            /\ pc' = PcForTag(m)
    /\ UNCHANGED <<jobs, twin, store0, variant, cfg, ns, run, walkVars, job_tags, browse_calls, preview, result>>

\* create_nested_folders: the next segment of the root path; after the last
\* one, root_path is the deepest path and folders_created the segment count.
CreateNestedFolder ==
    /\ pc = "nested"
    /\ mat.root_segs # <<>>
    /\ \E outcome \in WriteOutcomes :
        LET r == NestedFolderStep(store, cfg.tag_provider, mat.current_path,
                                  Head(mat.root_segs), outcome)
            rest == Tail(mat.root_segs)
            stepped == [mat EXCEPT !.root_segs = rest, !.current_path = r.ret]
            m == IF rest # <<>> THEN stepped
                 ELSE BeginTag([stepped EXCEPT
                          !.root_path = r.ret,
                          !.folders_created = Len(SelectParts(Split(cfg.root_folder)))])
        IN
        /\ store' = r.store
        /\ store_calls' = store_calls \o r.calls
        /\ faults' = SpendWrite(r.raised)
        /\ log' = LogRaised(r.raised, "folder_error", r.calls)
        /\ mat' = m
        /\ pc' = IF rest # <<>> THEN "nested" ELSE PcForTag(m)
    /\ UNCHANGED <<jobs, twin, store0, variant, cfg, ns, run, walkVars, job_tags, browse_calls, preview, result>>

\* Create folder structure: one pass of "for folder_name in folder_structure".
CreateTagFolder ==
    /\ pc = "folders"
    /\ mat.folder_structure # <<>>
    /\ LET folder_name == Head(mat.folder_structure)
           rest == Tail(mat.folder_structure)
           folder_key == FolderKey(mat.current_path, folder_name)
       IN
       /\ pc' = IF rest # <<>> THEN "folders" ELSE "tag"
       /\ IF CacheMiss(mat.folder_cache, folder_key)
          THEN \E outcome \in WriteOutcomes :
               LET r == CreateFolderStructure(store, cfg.tag_provider, mat.current_path,
                                              folder_name, outcome)
               IN
               /\ store' = r.store
               /\ store_calls' = store_calls \o r.calls
               /\ faults' = SpendWrite(r.raised)
               /\ log' = LogRaised(r.raised, "folder_error", r.calls)
               /\ mat' = [mat EXCEPT !.folder_structure = rest,
                                     !.current_path = r.ret,
                                     !.folder_cache = @ \cup {folder_key},
                                     !.folders_created = @ + 1]
          ELSE /\ mat' = [mat EXCEPT !.folder_structure = rest,
                                     !.current_path = CachedPath(mat.current_path, folder_name)]
               /\ UNCHANGED <<store, store_calls, faults, log>>
    /\ UNCHANGED <<jobs, twin, store0, variant, cfg, ns, run, walkVars, job_tags, browse_calls, preview, result>>

\* Create the tag, count it, sleep after a full chunk, go to the next tag.
CreateTag ==
    /\ pc = "tag"
    /\ \E outcome \in WriteOutcomes, read \in ReadsFor(cfg.data_type) :
       \E detected \in DetectOpcDataType(read) :
        LET tag_info == job_tags[mat.idx + 1]
            tag_opc_server == IF variant = "ui" THEN tag_info.opc_server ELSE cfg.opc_server
            r == CreateOpcTag(store, cfg.tag_provider, mat.current_path,
                              <<tag_info.display_name>>, tag_opc_server, tag_info.node_id,
                              cfg.data_type, read, detected, outcome)
            counted == [mat EXCEPT !.tags_created = @ + (IF r.ret THEN 1 ELSE 0),
                                   !.sleeps = @ + SleepsAfter(mat.idx, cfg.chunk_size),
                                   !.idx = @ + 1]
            last == mat.idx + 1 = Len(job_tags)
            m == IF last THEN counted ELSE BeginTag(counted)
        IN
        /\ store' = r.store
        /\ store_calls' = store_calls \o r.calls
        /\ faults' = SpendWrite(r.raised)
        /\ log' = LogRaised(r.raised, "tag_error", r.calls)
        /\ mat' = m
        /\ pc' = IF last THEN "return" ELSE PcForTag(m)
    /\ UNCHANGED <<jobs, twin, store0, variant, cfg, ns, run, walkVars, job_tags, browse_calls, preview, result>>

\* the dictionary create_tags_from_list returns, which main returns in turn
Summary(m) ==
    [success |-> TRUE, tags_created |-> m.tags_created, folders_created |-> m.folders_created]

CreateReturn ==
    /\ pc = "return"
    /\ result' = Summary(mat)
    /\ pc' = "done"
    /\ UNCHANGED <<jobs, twin, store0, variant, cfg, ns, run, faults, walkVars, job_tags, log, browse_calls,
                   store, store_calls, mat, preview>>

----------------------------------------------------------------------------
(* main / import_deltav_tags_ui *)

\* print_tag_paths: the full Ignition path printed for one tag
IgnitionPath(tag_info, root_folder, tag_provider) ==
    LET path_parts == Split(tag_info.relative_path)
        folder_path == IF Len(path_parts) > 1 THEN Join(AllButLast(path_parts)) ELSE <<>>
    IN
    IF folder_path # <<>>
    THEN Bracket(tag_provider) \o root_folder \o <<"/">> \o folder_path \o <<"/">>
             \o <<tag_info.display_name>>
    ELSE Bracket(tag_provider) \o root_folder \o <<"/">> \o <<tag_info.display_name>>

\* import_deltav_tags_ui: the sample path logged for one tag
SamplePath(tag_info, root_folder, tag_provider) ==
    Bracket(tag_provider) \o root_folder \o <<"/">> \o tag_info.relative_path

\* The paths the dry run renders: print_tag_paths prints every tag (grouped by
\* folder), the ui logs the first 10 as samples.
PreviewPaths ==
    IF variant = "ui"
    THEN {SamplePath(t, cfg.root_folder, cfg.tag_provider) :
              t \in Range(Take(job_tags, SampleLimit))}
    ELSE {IgnitionPath(t, cfg.root_folder, cfg.tag_provider) : t \in Range(job_tags)}

\* if len(found_tags) == 0: return {'success': False, 'tags_found': 0}
NoTagsFound ==
    /\ pc = "main"
    /\ MainBranch = "none"
    /\ result' = [success |-> FALSE, tags_found |-> 0]
    /\ pc' = "done"
    /\ UNCHANGED <<jobs, twin, store0, variant, cfg, ns, run, faults, walkVars, job_tags, log, browse_calls,
                   store, store_calls, mat, preview>>

\* if DRY_RUN: only render the paths
DryRun ==
    /\ pc = "main"
    /\ MainBranch = "dry"
    /\ preview' = PreviewPaths
    /\ result' = [success |-> TRUE, dry_run |-> TRUE, tags_found |-> Len(job_tags)]
    /\ pc' = "done"
    /\ UNCHANGED <<jobs, twin, store0, variant, cfg, ns, run, faults, walkVars, job_tags, log, browse_calls,
                   store, store_calls, mat>>

Running == [status |-> "running"]

\* The job is run again with the same configuration: every local of the
\* previous run is gone, the tag store is what the previous run left.
Rerun ==
    /\ pc = "done"
    /\ run < MaxRuns
    /\ run' = run + 1
    /\ pc' = "browse"
    /\ browse_queue' = <<<<cfg.base_node_id, <<>>>>>>
    /\ visited' = {cfg.base_node_id}
    /\ found_tags' = <<>>
    /\ iteration_count' = 0
    /\ current' = <<cfg.base_node_id, <<>>>>
    /\ items' = <<>>
    /\ job_tags' = <<>>
    /\ log' = <<>>
    /\ browse_calls' = browse_calls
    /\ mat' = MatInit
    /\ preview' = {}
    /\ result' = Running
    /\ store0' = store
    /\ UNCHANGED <<jobs, twin, variant, cfg, ns, faults, store, store_calls>>

----------------------------------------------------------------------------
(* Configurations and initial states *)

Str(name) == <<name>>

RootTarget == <<"T">>

\* a chunk_size that does not divide the number of tags of NsMany
SmallChunk == 7

\* 'T', 'T/U', 'T/', 'T/ U', 'T//U'
RootFolders ==
    {RootTarget, <<"T", "/", "U">>, <<"T", "/">>, <<"T", "/", " ", "U">>,
     <<"T", "/", "/", "U">>}

SearchCV == [kind |-> "list", v |-> <<"CV">>]

\* a filter that names the #Properties pseudo-folder as well
SearchWithProps == [kind |-> "list", v |-> <<"CV", Props>>]

SearchNames == {SearchCV, [kind |-> "str", v |-> "CV"], SearchWithProps, None}

MaxIterationChoices == (1..MaxIterBound) \cup {DefaultMaxIterations}

EmptyStore == [k \in {} |-> FolderTag]

\* a store that already holds the root folder, and one that holds T/A/CV bound
\* to another OPC item
InitialStores ==
    {EmptyStore,
     Join(<<Str("T")>>) :> FolderTag,
     Join(<<Str("T")>>) :> FolderTag @@ Join(<<Str("T"), Str("A")>>) :> FolderTag
        @@ Join(<<Str("T"), Str("A"), Str("CV")>>) :> OpcTag("DeltaV", "old", "Int4")}

Config(root_folder, search_tag_names, data_type, chunk_size, max_iterations, dry_run) ==
    [opc_server |-> "DeltaV", base_node_id |-> BaseNode, tag_provider |-> Str("default"),
     root_folder |-> root_folder, search_tag_names |-> search_tag_names,
     data_type |-> data_type, chunk_size |-> chunk_size,
     max_iterations |-> max_iterations, dry_run |-> dry_run]

\* browsing: every namespace, filter and iteration limit, with browse faults
InitBrowse ==
    /\ variant \in {"cli", "ui"}
    /\ ns \in Namespaces
    /\ cfg \in {Config(RootTarget, s, "Float8", DefaultChunkSize, mi, TRUE) :
                    s \in SearchNames, mi \in MaxIterationChoices}
    /\ store = EmptyStore
    /\ faults = [browse |-> MaxBrowseFaults, write |-> 0]

\* mirroring: every root folder and initial store, with write faults
InitMirror ==
    /\ variant \in {"cli", "ui"}
    /\ ns \in {NsScenario, NsNested}
    /\ cfg \in {Config(rf, SearchCV, "Float8", DefaultChunkSize, DefaultMaxIterations, dr) :
                    rf \in RootFolders, dr \in BOOLEAN}
    /\ store \in InitialStores
    /\ faults = [browse |-> 0, write |-> MaxWriteFaults]

\* auto-detected and fixed data types, small chunks (ui)
InitAuto ==
    /\ variant = "ui"
    /\ ns \in {NsScenario, NsTwice}
    /\ cfg \in {Config(RootTarget, SearchCV, dt, cs, DefaultMaxIterations, FALSE) :
                    dt \in {AutoType, "Int4"}, cs \in {1, 2}}
    /\ store = EmptyStore
    /\ faults = [browse |-> 0, write |-> MaxWriteFaults]

\* live runs in which browse calls and configure calls may both fail
InitFlaky ==
    /\ variant \in {"cli", "ui"}
    /\ ns \in {NsScenario, NsShared}
    /\ cfg \in {Config(RootTarget, SearchCV, "Float8", DefaultChunkSize, mi, FALSE) :
                    mi \in MaxIterationChoices}
    /\ store = EmptyStore
    /\ faults = [browse |-> MaxBrowseFaults, write |-> MaxWriteFaults]

\* many tags: progress messages, pauses and the sample limit of the preview
InitPacing ==
    /\ variant \in {"cli", "ui"}
    /\ ns = NsMany
    /\ cfg \in {Config(RootTarget, SearchCV, "Float8", cs, DefaultMaxIterations, dr) :
                    cs \in {DefaultChunkSize, SmallChunk}, dr \in BOOLEAN}
    /\ store = EmptyStore
    /\ faults = [browse |-> 0, write |-> 0]

\* a job started with an empty OPC connection name
InitNoServer ==
    /\ variant \in {"cli", "ui"}
    /\ ns = NsScenario
    /\ cfg \in {[Config(RootTarget, SearchCV, "Float8", DefaultChunkSize,
                        DefaultMaxIterations, dr) EXCEPT !.opc_server = NoServer] :
                    dr \in BOOLEAN}
    /\ store = EmptyStore
    /\ faults = [browse |-> 0, write |-> 0]

Init ==
    /\ (InitBrowse \/ InitMirror \/ InitAuto \/ InitFlaky \/ InitNoServer \/ InitPacing)
    /\ pc = "browse"
    /\ run = 1
    /\ browse_queue = <<<<cfg.base_node_id, <<>>>>>>
    /\ visited = {cfg.base_node_id}
    /\ found_tags = <<>>
    /\ iteration_count = 0
    /\ current = <<cfg.base_node_id, <<>>>>
    /\ items = <<>>
    /\ job_tags = <<>>
    /\ log = <<>>
    /\ browse_calls = <<>>
    /\ store0 = store
    /\ store_calls = <<>>
    /\ mat = MatInit
    /\ preview = {}
    /\ result = Running
    /\ jobs = <<>>
    /\ twin = NoTwin

Next ==
    \/ BrowseNext
    \/ ProcessItem
    \/ BrowseReturn
    \/ NoTagsFound
    \/ DryRun
    \/ CreateRoot
    \/ CreateNestedFolder
    \/ CreateTagFolder
    \/ CreateTag
    \/ CreateReturn
    \/ Rerun

Spec == Init /\ [][Next]_vars

\* browse_opc_iterative runs in one thread and every call it makes returns:
\* a browse that can take its next step takes it.
Walk == BrowseNext \/ ProcessItem \/ BrowseReturn

FairSpec == Spec /\ WF_vars(Walk)

----------------------------------------------------------------------------
(* Reading the histories *)

RECURSIVE CountIn(_, _)
\* how many elements of seq are in the set S
CountIn(seq, S) ==
    IF seq = <<>> THEN 0
    ELSE (IF Head(seq) \in S THEN 1 ELSE 0) + CountIn(Tail(seq), S)

\* the browseServer calls of the run in progress
RunBrowseCalls == SelectSeq(browse_calls, LAMBDA c : c.run = run)

QueueBrowses == SelectSeq(RunBrowseCalls, LAMBDA c : c.kind = "queue")

\* the browse of this run has returned
Browsed == pc \notin {"browse", "items"}

LimitWarning == [type |-> "limit_warning"]

ConfigureCalls == SelectSeq(store_calls, LAMBDA c : c.op = "configure")

----------------------------------------------------------------------------
(* C5 *)

\* C5: in a dry run the job makes no call at all on the tag store (no
\* existence check, no folder or tag configure) and the store keeps its
\* content, whatever the namespace and whatever was discovered.
C5_DryRunIssuesNoStoreCall ==
    cfg.dry_run => (store_calls = <<>> /\ store = store0)

C5_Witness ==
    /\ cfg.dry_run
    /\ pc = "done"
    /\ Len(job_tags) >= 2
    /\ preview # {}
    /\ store_calls = <<>>

----------------------------------------------------------------------------
(* C9 *)

\* C9: the browse takes at most max_iterations work items from the queue (one
\* queue browse each); when it stops at the limit it logs the warning and
\* returns the tags recorded so far, and the job goes on with them.
C9_IterationLimitIsNonFatal ==
    /\ iteration_count <= cfg.max_iterations
    /\ Len(QueueBrowses) = iteration_count
    /\ Browsed =>
          /\ job_tags = found_tags
          /\ (iteration_count >= cfg.max_iterations => LimitWarning \in Range(log))

C9_Witness ==
    /\ pc = "done"
    /\ iteration_count = cfg.max_iterations
    /\ browse_queue # <<>>
    /\ LimitWarning \in Range(log)
    /\ Len(job_tags) > 0
    /\ result.success

----------------------------------------------------------------------------
(* C1 *)

\* the names asked for
FilterNames ==
    IF cfg.search_tag_names.kind = "none" THEN {}
    ELSE IF cfg.search_tag_names.kind = "str" THEN {cfg.search_tag_names.v}
    ELSE Range(cfg.search_tag_names.v)

\* the chains one edge longer than those of level that end in a node of Through
Extend(level, Through) ==
    UNION {{<<c, Append(ch[2], ns.disp[c])>> : c \in Range(ns.kids[ch[1]])} :
               ch \in {x \in level : x[1] \in Through}}

RECURSIVE ChainsFrom(_, _, _)
\* <<node, display names>> for the chains of children that start with level,
\* have at most k more edges and whose nodes other than the last are in Through
ChainsFrom(level, Through, k) ==
    IF k = 0 THEN level
    ELSE level \cup ChainsFrom(Extend(level, Through), Through, k - 1)

ChainsBelowBase(Through) ==
    ChainsFrom(Extend({<<cfg.base_node_id, <<>>>>}, {cfg.base_node_id}), Through,
               Cardinality(NodeIds))

\* '/'-joined display names
JoinNames(names) == Join([i \in 1..Len(names) |-> <<names[i]>>])

\* the nodes the browse walks into: not asked for, not #Properties, with children
Folders ==
    {n \in NodeIds : /\ ns.disp[n] \notin FilterNames
                     /\ ns.disp[n] # Props
                     /\ ns.kids[n] # <<>>}

FoundNodes == {t.node_id : t \in Range(job_tags)}

FoundEntries == [i \in 1..Len(job_tags) |-> <<job_tags[i].node_id, job_tags[i].relative_path>>]

AllBrowsesOk == \A i \in 1..Len(RunBrowseCalls) : RunBrowseCalls[i].outcome = "ok"

\* the browse has returned, with a name filter, no failed browse and the limit not reached
CompleteBrowse ==
    /\ Browsed
    /\ cfg.search_tag_names.kind # "none"
    /\ AllBrowsesOk
    /\ iteration_count < cfg.max_iterations

\* C1 as stated: after a browse without failure that did not reach the limit,
\* the result holds exactly the nodes below the base node whose display name
\* is asked for, each with the '/'-joined display names of a chain from the
\* base node down to it.
C1_Original ==
    CompleteBrowse =>
        /\ FoundNodes = {ch[1] : ch \in {x \in ChainsBelowBase(NodeIds) :
                                            ns.disp[x[1]] \in FilterNames}}
        /\ \A t \in Range(job_tags) :
              \E ch \in ChainsBelowBase(NodeIds) :
                  ch[1] = t.node_id /\ JoinNames(ch[2]) = t.relative_path

\* C1 (amended): after such a browse the result holds exactly the nodes named
\* in the filter (and not named #Properties) that are reached from the base
\* node through nodes that are neither named in the filter nor named
\* #Properties; each entry carries the node's display name and the '/'-joined
\* display names of such a chain.  For Root -> A -> {CV, B -> CV} and filter
\* {CV} the result is A/CV then A/B/CV.
C1_Completeness ==
    CompleteBrowse =>
        /\ FoundNodes = {ch[1] : ch \in {x \in ChainsBelowBase(Folders) :
                                            /\ ns.disp[x[1]] \in FilterNames
                                            /\ ns.disp[x[1]] # Props}}
        /\ \A t \in Range(job_tags) :
              /\ t.display_name = ns.disp[t.node_id]
              /\ \E ch \in ChainsBelowBase(Folders) :
                    ch[1] = t.node_id /\ JoinNames(ch[2]) = t.relative_path
        /\ (ns = NsScenario) =>
              FoundEntries = << <<"c1", <<"A", "/", "CV">> >>,
                                <<"c2", <<"A", "/", "B", "/", "CV">> >> >>

\* a CV below #Properties is left out, the CV below A is found
C1_Witness ==
    /\ CompleteBrowse
    /\ ns = NsProps
    /\ FoundEntries = << <<"c2", <<"A", "/", "CV">> >> >>

----------------------------------------------------------------------------
(* C2 *)

NoBrowseFault == \A i \in 1..Len(browse_calls) : browse_calls[i].outcome = "ok"

NoWriteFault == \A i \in 1..Len(ConfigureCalls) : ConfigureCalls[i].outcome = "ok"

----------------------------------------------------------------------------
(* C3 *)

\* destinationRootPath + '/' + relativePath, as the store names it
DestinationPath(t) == TagPath(cfg.root_folder \o <<"/">> \o t.relative_path)

\* the paths of the folders above a path
Ancestors(path) ==
    LET parts == Split(path) IN {Join(SubSeq(parts, 1, k)) : k \in 1..(Len(parts) - 1)}

\* a live run has ended
LiveDone == pc = "done" /\ ~cfg.dry_run /\ Len(job_tags) > 0

Mirrored ==
    /\ \A t \in Range(job_tags) :
          /\ DestinationPath(t) \in DOMAIN store
          /\ store[DestinationPath(t)].tagType = "AtomicTag"
          /\ store[DestinationPath(t)].opcItemPath = t.node_id
          /\ \A a \in Ancestors(DestinationPath(t)) :
                a \in DOMAIN store /\ store[a].tagType = "Folder"
    /\ (DOMAIN store \ DOMAIN store0) \subseteq
          UNION {{DestinationPath(t)} \cup Ancestors(DestinationPath(t)) :
                     t \in Range(job_tags)}

\* C3 as stated: after a live run without write failure the store holds, for
\* every discovered tag, an OPC tag at root + '/' + relative path bound to the
\* tag's node id, with every folder above it, and nothing else was created.
C3_Original ==
    (LiveDone /\ NoWriteFault) => Mirrored

\* tags with the same relative path are the same node
DistinctPaths ==
    \A t, u \in Range(job_tags) : t.relative_path = u.relative_path => t.node_id = u.node_id

\* no target path held another entry before the run
StoreCompatible ==
    \A t \in Range(job_tags) :
        /\ DestinationPath(t) \in DOMAIN store0 =>
              /\ store0[DestinationPath(t)].tagType = "AtomicTag"
              /\ store0[DestinationPath(t)].opcItemPath = t.node_id
        /\ \A a \in Ancestors(DestinationPath(t)) :
              a \in DOMAIN store0 => store0[a].tagType = "Folder"

\* the root's segments are non-empty and unpadded; the console script takes
\* the root as one folder name
PlainRoot ==
    /\ \A seg \in Range(Split(cfg.root_folder)) : seg # <<>> /\ Strip(seg) = seg
    /\ variant = "cli" => Len(Split(cfg.root_folder)) = 1

SuccessfulConfigures ==
    LET ok == SelectSeq(ConfigureCalls, LAMBDA c : c.outcome = "ok")
    IN [i \in 1..Len(ok) |-> <<ok[i].tagType, ok[i].path>>]

\* C3 (amended): after a live run without write failure, on a store in which
\* no target path held a different entry, for discovered tags whose equal
\* relative paths mean equal nodes and a root folder of non-empty, unpadded
\* segments (a single segment for create_tags_from_list), the store holds for
\* every discovered tag an OPC tag at root + '/' + relative path bound to the
\* tag's node id, with every folder above it, and nothing else was created.
\* For the scenario and root T on an empty store the run creates the folders
\* T, T/A, T/A/B and the tags T/A/CV, T/A/B/CV.
C3_MirrorCorrectness ==
    (LiveDone /\ NoWriteFault /\ DistinctPaths /\ StoreCompatible /\ PlainRoot) =>
        /\ Mirrored
        /\ (ns = NsScenario /\ cfg.root_folder = RootTarget /\ store0 = EmptyStore
            /\ NoBrowseFault /\ cfg.max_iterations = DefaultMaxIterations) =>
              SuccessfulConfigures =
                  << <<"Folder", <<"T">> >>,
                     <<"Folder", <<"T", "/", "A">> >>,
                     <<"AtomicTag", <<"T", "/", "A", "/", "CV">> >>,
                     <<"Folder", <<"T", "/", "A", "/", "B">> >>,
                     <<"AtomicTag", <<"T", "/", "A", "/", "B", "/", "CV">> >> >>

\* the ui script has mirrored the scenario below the nested root T/U
C3_Witness ==
    /\ LiveDone /\ NoWriteFault /\ DistinctPaths /\ StoreCompatible /\ PlainRoot
    /\ run = 1
    /\ ns = NsScenario
    /\ cfg.root_folder = <<"T", "/", "U">>
    /\ <<"T", "/", "U", "/", "A", "/", "B", "/", "CV">> \in DOMAIN store
    /\ store0 = EmptyStore

----------------------------------------------------------------------------
(* C4 *)

\* the call before store_calls[i] that is not a value read
PreviousStoreCall(i) ==
    IF store_calls[i - 1].op = "readValue" THEN store_calls[i - 2] ELSE store_calls[i - 1]

\* the tag configure calls of the run in progress that raised
RunFailedTagCreates ==
    SelectSeq(ConfigureCalls,
              LAMBDA c : c.run = run /\ c.tagType = "AtomicTag" /\ c.outcome # "ok")

\* C4: every system.tag.configure call follows an existence check of the
\* same path that found nothing: the path was not in the store when the run
\* started and no earlier call created it; every entry the store held when
\* the run started is still there unchanged; a tag that exists already counts as created
\* (create_opc_tag returns True without a configure call).
C4_NeverOverwrites ==
    /\ \A k \in DOMAIN store0 : k \in DOMAIN store /\ store[k] = store0[k]
    /\ \A i \in 1..Len(store_calls) :
          store_calls[i].op = "configure" =>
              /\ store_calls[i].run = run => store_calls[i].path \notin DOMAIN store0
              /\ \A j \in 1..(i - 1) :
                    ~(/\ store_calls[j].op = "configure"
                      /\ store_calls[j].outcome = "ok"
                      /\ store_calls[j].path = store_calls[i].path)
              /\ i > 1
              /\ PreviousStoreCall(i).op = "exists"
              /\ PreviousStoreCall(i).path = store_calls[i].path
    /\ (pc \in {"return", "done"} /\ ~cfg.dry_run /\ Len(job_tags) > 0) =>
          mat.tags_created = Len(job_tags) - Len(RunFailedTagCreates)

\* the tag T/A/CV was there before the job: checked, not configured, counted
C4_Witness ==
    /\ LiveDone
    /\ ns = NsScenario
    /\ Join(<<Str("T"), Str("A"), Str("CV")>>) \in DOMAIN store0
    /\ \E i \in 1..Len(store_calls) :
          /\ store_calls[i].op = "exists"
          /\ store_calls[i].path = Join(<<Str("T"), Str("A"), Str("CV")>>)
    /\ \A i \in 1..Len(ConfigureCalls) :
          ConfigureCalls[i].path # Join(<<Str("T"), Str("A"), Str("CV")>>)
    /\ mat.tags_created = 2
    /\ Len(ConfigureCalls) > 0

----------------------------------------------------------------------------
(* C6 *)

RECURSIVE NestedRootPath(_, _)
\* the path create_nested_folders returns for the segments segs
NestedRootPath(current_path, segs) ==
    IF segs = <<>> THEN current_path
    ELSE NestedRootPath(IF Strip(Head(segs)) = <<>> THEN current_path
                        ELSE FolderPath(current_path, Strip(Head(segs))),
                        Tail(segs))

\* root_path of a live run
LiveRootPath ==
    IF IsNestedRoot(cfg.root_folder) THEN NestedRootPath(<<>>, Split(cfg.root_folder))
    ELSE FolderPath(<<>>, cfg.root_folder)

RECURSIVE LiveFolderPath(_, _)
\* current_path of a live run after the folders of folder_structure
LiveFolderPath(current_path, folder_structure) ==
    IF folder_structure = <<>> THEN current_path
    ELSE LiveFolderPath(FolderPath(current_path, Head(folder_structure)),
                        Tail(folder_structure))

\* full_tag_path of a live run for one tag
LiveTagPath(t) ==
    FullTagPath(cfg.tag_provider,
                LiveFolderPath(LiveRootPath, AllButLast(Split(t.relative_path))),
                <<t.display_name>>)

LiveTagPaths == {TagPath(LiveTagPath(t)) : t \in Range(job_tags)}

\* LiveTagPaths is what a live run does: at its end the tag paths it checked
\* for existence are exactly LiveTagPaths.
LiveTagPathsAreLive ==
    LiveDone =>
        LiveTagPaths \subseteq
            {store_calls[i].path : i \in {j \in 1..Len(store_calls) :
                                             store_calls[j].run = run
                                             /\ store_calls[j].op = "exists"}}

\* C6 as stated: the tag paths the dry run renders are, as the store names
\* them, exactly the tag paths a live run with the same tags and root folder
\* creates or finds in place, for every root folder.
C6_Original ==
    (pc = "done" /\ cfg.dry_run /\ Len(job_tags) > 0) =>
        {TagPath(path) : path \in preview} = LiveTagPaths

----------------------------------------------------------------------------
(* C8 *)

CallsFor(n, kind) ==
    Len(SelectSeq(RunBrowseCalls, LAMBDA c : c.node = n /\ c.kind \in kind))

RECURSIVE ListedCount(_, _)
\* how many times the successful queue browses in calls listed the node n
ListedCount(calls, n) ==
    IF calls = <<>> THEN 0
    ELSE (IF Head(calls).outcome = "ok" THEN CountIn(ns.kids[Head(calls).node], {n}) ELSE 0)
         + ListedCount(Tail(calls), n)

\* C8 as stated: in one run browseServer is called at most once for a node
\* id, probes and queue browses counted together.
C8_Original ==
    \A n \in NodeIds : CallsFor(n, {"queue", "probe"}) <= 1

\* C8 (amended): in one run the browse of a node taken from the queue is
\* issued at most once for a node id, however many parents list the node; the
\* folder probe is a further browseServer call, issued at most once each time
\* a browsed node lists the node.
C8_BrowsedOncePerRun ==
    \A n \in NodeIds :
        /\ CallsFor(n, {"queue"}) <= 1
        /\ CallsFor(n, {"probe"}) <= ListedCount(QueueBrowses, n)

\* D is listed by A and by B: probed twice, browsed once
C8_Witness ==
    /\ Browsed
    /\ ns = NsShared
    /\ CallsFor("d", {"probe"}) = 2
    /\ CallsFor("d", {"queue"}) = 1

----------------------------------------------------------------------------
(* C10 *)

RECURSIVE MatchesOf(_, _)
\* the tags one browse of a node at the relative path records for its items
MatchesOf(children, path) ==
    IF children = <<>> THEN <<>>
    ELSE LET c == Head(children)
             name == ns.disp[c]
         IN (IF name \in FilterNames /\ name # Props
             THEN <<TagInfo(c, name, IF path = <<>> THEN <<name>>
                                     ELSE path \o <<"/", name>>)>>
             ELSE <<>>)
            \o MatchesOf(Tail(children), path)

RECURSIVE ExpectedFound(_)
\* the tags recorded by the queue browses in calls that succeeded
ExpectedFound(calls) ==
    IF calls = <<>> THEN <<>>
    ELSE (IF Head(calls).outcome = "ok"
          THEN MatchesOf(ns.kids[Head(calls).node], Head(calls).path)
          ELSE <<>>)
         \o ExpectedFound(Tail(calls))

\* C10: when the browse of queued nodes raises, each such node is logged and
\* contributes nothing; the browse still returns, its result is, in order,
\* the matching children of every queued node whose browse succeeded; every
\* node that was queued has been taken from the queue and browsed unless the
\* iteration limit stopped the loop; and the job goes on to its result.
C10_BrowseFailureIsolation ==
    /\ Browsed =>
          /\ job_tags = ExpectedFound(QueueBrowses)
          /\ \A i \in 1..Len(QueueBrowses) :
                QueueBrowses[i].outcome = "raise" =>
                    [type |-> "browse_error", node |-> QueueBrowses[i].node] \in Range(log)
          /\ visited = {QueueBrowses[i].node : i \in 1..Len(QueueBrowses)}
                           \cup {browse_queue[i][1] : i \in 1..Len(browse_queue)}
          /\ browse_queue # <<>> => iteration_count >= cfg.max_iterations
    /\ pc = "done" => result # Running

\* the browse of A raised; B was still browsed and the tags below it returned
C10_Witness ==
    /\ pc = "done"
    /\ ns = NsShared
    /\ cfg.max_iterations = DefaultMaxIterations
    /\ \E i \in 1..Len(QueueBrowses) :
          QueueBrowses[i].node = "a" /\ QueueBrowses[i].outcome = "raise"
    /\ [type |-> "browse_error", node |-> "a"] \in Range(log)
    /\ FoundEntries = << <<"c1", <<"B", "/", "CV">> >>,
                         <<"c2", <<"B", "/", "D", "/", "CV">> >> >>

----------------------------------------------------------------------------
(* C7 *)

\* C7: the browse takes at most as many work items from the queue as there
\* are node ids, cycles or not, and with an iteration limit above that number
\* it empties its queue and returns without the limit warning.
C7_TraversalTerminates ==
    /\ [](iteration_count <= Cardinality(NodeIds))
    /\ (cfg.max_iterations > Cardinality(NodeIds)) =>
          <>(Browsed /\ browse_queue = <<>> /\ LimitWarning \notin Range(log))

\* the namespace with back-references was browsed to the end
C7_Witness ==
    /\ Browsed
    /\ ns = NsCycle
    /\ cfg.max_iterations = DefaultMaxIterations
    /\ browse_queue = <<>>
    /\ visited = {"r", "a", "b"}
    /\ iteration_count = 3
    /\ LimitWarning \notin Range(log)

----------------------------------------------------------------------------
(* C11 *)

\* the folder that holds the tag or folder at path
ParentOf(path) == Join(AllButLast(Split(path)))

\* store_calls[j] found its path in the store: an existence check that no
\* configure call of the same path follows
FoundInPlace(j) ==
    /\ store_calls[j].op = "exists"
    /\ ~(/\ j < Len(store_calls)
         /\ store_calls[j + 1].op = "configure"
         /\ store_calls[j + 1].path = store_calls[j].path)
    /\ ~(/\ j + 1 < Len(store_calls)
         /\ store_calls[j + 1].op = "readValue"
         /\ store_calls[j + 2].path = store_calls[j].path)

\* before store_calls[i] the same run created the folder at path or found it
FolderEstablishedBefore(i, path) ==
    \E j \in 1..(i - 1) :
        /\ store_calls[j].run = store_calls[i].run
        /\ store_calls[j].op # "readValue"
        /\ store_calls[j].path = path
        /\ \/ store_calls[j].op = "configure" /\ store_calls[j].outcome = "ok"
           \/ FoundInPlace(j)

\* C11 as stated: every tag configure call comes after a configure call of
\* the same run that created the tag's parent folder, or an existence check
\* of the same run that found it, also in runs in which configure calls raise.
C11_Original ==
    \A i \in 1..Len(store_calls) :
        (store_calls[i].op = "configure" /\ store_calls[i].tagType = "AtomicTag") =>
            FolderEstablishedBefore(i, ParentOf(store_calls[i].path))

\* Without a raised configure call the order holds: the parent folder of
\* every configured tag was created or found earlier in the run.
FolderBeforeTagWithoutFault ==
    NoWriteFault => C11_Original

----------------------------------------------------------------------------
(* C12 *)

\* the store calls of the run in progress
RunStoreCalls == SelectSeq(store_calls, LAMBDA c : c.run = run)

\* the paths the run in progress checked for existence
RunChecked ==
    {RunStoreCalls[i].path : i \in {j \in 1..Len(RunStoreCalls) : RunStoreCalls[j].op = "exists"}}

\* the folders of a tag at and below the root folder
FoldersOf(t) ==
    {a \in Ancestors(TagPath(LiveTagPath(t))) :
        Len(Split(a)) >= Len(Split(TagPath(LiveRootPath)))}

\* create_tags_from_list has gone through all the tags
Materialized == pc \in {"return", "done"} /\ ~cfg.dry_run /\ Len(job_tags) > 0

ErrorType(tagType) == IF tagType = "Folder" THEN "folder_error" ELSE "tag_error"

----------------------------------------------------------------------------
(* C13 *)

\* the folder configure calls of the run in progress
RunFolderCreates ==
    SelectSeq(RunStoreCalls, LAMBDA c : c.op = "configure" /\ c.tagType = "Folder")

\* every folder path above a discovered tag placed at root + '/' + relative path
ImpliedFolders == UNION {Ancestors(DestinationPath(t)) : t \in Range(job_tags)}

\* the folders the run walks: the root folder, taken segment by segment for a
\* nested root of the ui script and as one folder otherwise, and every folder
\* of a tag below it
WalkedFolders ==
    (IF IsNestedRoot(cfg.root_folder)
     THEN LET parts == Split(TagPath(LiveRootPath))
          IN {Join(SubSeq(parts, 1, k)) : k \in 1..Len(parts)}
     ELSE {TagPath(LiveRootPath)})
    \cup UNION {FoldersOf(t) : t \in Range(job_tags)}

----------------------------------------------------------------------------
(* C14 *)

\* how many calls op the run in progress made for path
RunCallsAt(op, path) ==
    Len(SelectSeq(RunStoreCalls, LAMBDA c : c.op = op /\ c.path = path))

\* the run is creating folders and tags, or has done so
Materializing == ~cfg.dry_run /\ Len(job_tags) > 0 /\ pc \in {"nested", "folders", "tag", "return", "done"}

\* C14: in one run every folder path is checked for existence at most once
\* and configured at most once, however many discovered tags lie below it; a
\* folder whose key is in folder_cache is not checked again.
C14_FolderCacheBound ==
    Materializing =>
        \A path \in WalkedFolders :
            /\ RunCallsAt("exists", path) <= 1
            /\ RunCallsAt("configure", path) <= 1

\* A holds CV and B: checked once and configured once for the two tags
C14_Witness ==
    /\ LiveDone
    /\ ns = NsScenario
    /\ cfg.root_folder = RootTarget
    /\ Len(job_tags) = 2
    /\ RunCallsAt("exists", Join(<<Str("T"), Str("A")>>)) = 1
    /\ RunCallsAt("configure", Join(<<Str("T"), Str("A")>>)) = 1
    /\ FolderKey(Str("T"), Str("A")) \in mat.folder_cache

----------------------------------------------------------------------------
(* C15 *)

\* the value reads of the run in progress
RunReads == SelectSeq(RunStoreCalls, LAMBDA c : c.op = "readValue")

\* C15 as stated, for a retry limit N of two or more: a remote call that has
\* raised fewer than N times is made again, so a browse or value read that
\* raised once is followed by a call for the same node that succeeds.
C15_Original ==
    /\ Browsed =>
          \A i \in 1..Len(RunBrowseCalls) :
              RunBrowseCalls[i].outcome = "raise" =>
                  \E j \in (i + 1)..Len(RunBrowseCalls) :
                      /\ RunBrowseCalls[j].node = RunBrowseCalls[i].node
                      /\ RunBrowseCalls[j].kind = RunBrowseCalls[i].kind
                      /\ RunBrowseCalls[j].outcome = "ok"
    /\ pc = "done" =>
          \A i \in 1..Len(RunReads) :
              RunReads[i].outcome = "raise" =>
                  \E j \in (i + 1)..Len(RunReads) :
                      /\ RunReads[j].node = RunReads[i].node
                      /\ RunReads[j].outcome # "raise"

\* No remote call is made again: a node is browsed from the queue once and
\* its value is read once, whatever the outcome.
NoRetry ==
    /\ \A n \in NodeIds : CallsFor(n, {"queue"}) <= 1
    /\ \A i, j \in 1..Len(RunReads) : RunReads[i].node = RunReads[j].node => i = j

----------------------------------------------------------------------------
(* C16 *)

\* the nodes without children below the base node, outside #Properties
TerminalNodes ==
    {ch[1] : ch \in {x \in ChainsBelowBase({n \in NodeIds : ns.disp[n] # Props}) :
                        ns.kids[x[1]] = <<>> /\ ns.disp[x[1]] # Props}}

\* the browse has returned, without a name filter, no failed browse and the
\* limit not reached
CompleteBrowseOfAll ==
    /\ Browsed
    /\ cfg.search_tag_names.kind = "none"
    /\ AllBrowsesOk
    /\ iteration_count < cfg.max_iterations

\* C16 as stated: with search_tag_names None the result holds every node
\* below the base node that has no children.
C16_Original ==
    CompleteBrowseOfAll => TerminalNodes \subseteq FoundNodes

\* With search_tag_names None the browse records nothing, whatever the
\* namespace.
NothingFoundWithoutFilter ==
    cfg.search_tag_names.kind = "none" => found_tags = <<>>

----------------------------------------------------------------------------
(* C17 *)

QueuedNodes == {browse_queue[i][1] : i \in 1..Len(browse_queue)}

\* C17 as stated: a node recorded in the result is never probed, never put
\* on the queue and never browsed in the run.
C17_Original ==
    \A t \in Range(found_tags) :
        /\ CallsFor(t.node_id, {"probe", "queue"}) = 0
        /\ t.node_id \notin visited
        /\ t.node_id \notin QueuedNodes

\* C17 (amended): a node recorded in the result is never probed and never
\* added to the queue, and no browseServer call is issued for it, unless it
\* is the base node: the base node is on the queue from the start and is
\* browsed once, before any name is looked at, and it is recorded when a node
\* below it lists it as a child and its display name is asked for.
C17_RecordedNodeIsNotBrowsed ==
    \A t \in Range(found_tags) :
        /\ CallsFor(t.node_id, {"probe"}) = 0
        /\ t.node_id # cfg.base_node_id =>
              /\ CallsFor(t.node_id, {"queue"}) = 0
              /\ t.node_id \notin visited
              /\ t.node_id \notin QueuedNodes
        /\ t.node_id = cfg.base_node_id =>
              /\ CallsFor(t.node_id, {"queue"}) = 1
              /\ RunBrowseCalls[1].node = t.node_id
              /\ t.node_id \notin QueuedNodes

\* the CV c1 has a child and is recorded without any browse of it
C17_Witness ==
    /\ Browsed
    /\ ns = NsNested
    /\ "c1" \in FoundNodes
    /\ ns.kids["c1"] # <<>>
    /\ CallsFor("c1", {"probe", "queue"}) = 0
    /\ "c3" \notin FoundNodes

----------------------------------------------------------------------------
(* C18 *)

CanonicalTypes == {"Float8", "Float4", "Int4", "Int8", "Boolean", "String"}

\* no key of type_map occurs in the name of the value's type
Unrecognized(outcome) ==
    /\ outcome \notin {"raise", "none"}
    /\ \A k \in DOMAIN TypeMap : ~IsSubstring(TypeName(k), TypeName(outcome))

\* the tag configure call that follows the value read store_calls[i]
ConfigureAfterRead(i) == store_calls[i + 1]

\* C18: detect_opc_data_type answers every read outcome with one of Float8,
\* Float4, Int4, Int8, Boolean, String; with Float8 when the read raises,
\* returns None or returns a value whose type matches no key; and the tag
\* configure call is issued after every value read, with the type detected.
C18_TypeDetectionNeverFails ==
    /\ \A outcome \in ReadOutcomes :
          /\ DetectOpcDataType(outcome) # {}
          /\ DetectOpcDataType(outcome) \subseteq CanonicalTypes
          /\ (outcome \in {"raise", "none"} \/ Unrecognized(outcome)) =>
                DetectOpcDataType(outcome) = {"Float8"}
    /\ \A i \in 1..Len(store_calls) :
          store_calls[i].op = "readValue" =>
              /\ i < Len(store_calls)
              /\ ConfigureAfterRead(i).op = "configure"
              /\ ConfigureAfterRead(i).tagType = "AtomicTag"
              /\ ConfigureAfterRead(i).outcome = "ok" =>
                    /\ ConfigureAfterRead(i).path \in DOMAIN store
                    /\ store[ConfigureAfterRead(i).path].opcItemPath = store_calls[i].node
                    /\ store[ConfigureAfterRead(i).path].dataType \in CanonicalTypes
                    /\ (store_calls[i].outcome \in {"raise", "none"}
                        \/ Unrecognized(store_calls[i].outcome)) =>
                          store[ConfigureAfterRead(i).path].dataType = "Float8"

\* the read of one tag raised, the read of another returned a date: both
\* tags were created as Float8
C18_Witness ==
    /\ pc = "done"
    /\ \E i, j \in 1..Len(store_calls) :
          /\ store_calls[i].op = "readValue" /\ store_calls[i].outcome = "raise"
          /\ store_calls[j].op = "readValue" /\ store_calls[j].outcome = "java.util.Date"
          /\ ConfigureAfterRead(i).outcome = "ok"
          /\ ConfigureAfterRead(j).outcome = "ok"
          /\ store[ConfigureAfterRead(i).path].dataType = "Float8"
          /\ store[ConfigureAfterRead(j).path].dataType = "Float8"

----------------------------------------------------------------------------
(* C19 *)

\* the types of type_map for which the keys that match disagree
OrderDependentTypes == {k \in DOMAIN TypeMap : Cardinality(DetectOpcDataType(k)) > 1}

\* C19 as stated: a value whose type is named in type_map gets that entry's
\* data type, whatever the order in which the entries are visited: a tag
\* created after reading such a value has the data type of the entry.
C19_Original ==
    \A i \in 1..Len(store_calls) :
        (/\ store_calls[i].op = "readValue"
         /\ store_calls[i].outcome \in DOMAIN TypeMap
         /\ ConfigureAfterRead(i).outcome = "ok") =>
            store[ConfigureAfterRead(i).path].dataType = TypeMap[store_calls[i].outcome]

\* Of the twelve types of type_map only java.lang.Float is matched by keys
\* with different data types ('float' -> Float8 and 'java.lang.Float' ->
\* Float4); every other type gets its own entry's data type.
OnlyFloatDependsOnOrder ==
    /\ OrderDependentTypes = {"java.lang.Float"}
    /\ DetectOpcDataType("java.lang.Float") = {"Float8", "Float4"}
    /\ \A k \in DOMAIN TypeMap \ OrderDependentTypes : DetectOpcDataType(k) = {TypeMap[k]}

----------------------------------------------------------------------------
(* C20 *)

\* the tag configure calls that wrote their tag
TagCreates ==
    SelectSeq(ConfigureCalls, LAMBDA c : c.tagType = "AtomicTag" /\ c.outcome = "ok")

\* C20: a value is read only when the configured data type is None
\* (auto-detect); with a data type configured no value is read and every tag
\* the job creates has that data type.
C20_DetectionOnlyInAutoMode ==
    /\ (\E i \in 1..Len(store_calls) : store_calls[i].op = "readValue") =>
          cfg.data_type = AutoType
    /\ cfg.data_type # AutoType =>
          \A i \in 1..Len(TagCreates) : store[TagCreates[i].path].dataType = cfg.data_type

\* the ui script created the two tags of the scenario as Int4 without a read
C20_Witness ==
    /\ pc = "done"
    /\ variant = "ui"
    /\ cfg.data_type = "Int4"
    /\ Len(TagCreates) = 2
    /\ \A i \in 1..Len(store_calls) : store_calls[i].op # "readValue"
    /\ \A i \in 1..Len(TagCreates) : store[TagCreates[i].path].dataType = "Int4"

----------------------------------------------------------------------------
(* C21 *)

\* C21 as stated: a job started with an empty OPC connection name issues no
\* browseServer call and no call on the tag store.
C21_Original ==
    cfg.opc_server = NoServer => (browse_calls = <<>> /\ store_calls = <<>>)

\* Started with an empty connection name the job browses the base node once,
\* finds nothing and returns {'success': False, 'tags_found': 0}, the result
\* of every browse that finds no tag.
NoServerEndsAsNoTagsFound ==
    (cfg.opc_server = NoServer /\ pc = "done") =>
        /\ Len(RunBrowseCalls) = 1
        /\ RunBrowseCalls[1].node = cfg.base_node_id
        /\ result = [success |-> FALSE, tags_found |-> 0]

----------------------------------------------------------------------------
(* C22 *)

ReportedCounts == {"tags_found", "tags_created", "folders_created", "failures"}

\* C22 as stated: the result the job returns has the four counts, whichever
\* way the job ends.
C22_Original ==
    pc = "done" => ReportedCounts \subseteq DOMAIN result

\* The result has tags_found and no other count when nothing was found and
\* in a dry run, tags_created and folders_created after a live run, and a
\* count of failures in no case.
ResultFields ==
    pc = "done" =>
        DOMAIN result \cap ReportedCounts =
            IF Len(job_tags) = 0 \/ cfg.dry_run THEN {"tags_found"}
            ELSE {"tags_created", "folders_created"}

----------------------------------------------------------------------------
(* C23 *)

\* a configure call of the run in progress has raised
RunHadWriteFailure ==
    \E i \in 1..Len(RunStoreCalls) :
        RunStoreCalls[i].op = "configure" /\ RunStoreCalls[i].outcome = "raise"

\* what the job returns for the same tags when no create fails
ResultOfCleanRun ==
    [success |-> TRUE, tags_created |-> Len(job_tags), folders_created |-> mat.folders_created]

\* The order of the phases: the store is called only after the browse has
\* returned, in a live run that found tags; the paths are rendered only in a
\* dry run that found tags; once the job is past the browse no browseServer
\* call is added.
PhasesInOrder ==
    /\ ~Browsed => (RunStoreCalls = <<>> /\ preview = {} /\ result = Running)
    /\ RunStoreCalls # <<>> => (~cfg.dry_run /\ Len(job_tags) > 0 /\ preview = {})
    /\ preview # {} => (cfg.dry_run /\ Len(job_tags) > 0 /\ RunStoreCalls = <<>>)
    /\ pc \in {"nested", "folders", "tag", "return"} => (~cfg.dry_run /\ Len(job_tags) > 0)

\* C23 as stated: the phases follow in order, no store call is made before
\* the browse has returned, and a run in which a folder or tag create failed
\* ends with a result that differs from the result of a run without failure.
C23_Original ==
    /\ PhasesInOrder
    /\ (pc = "done" /\ RunHadWriteFailure) => result # ResultOfCleanRun

----------------------------------------------------------------------------
(* C24 *)

\* the tags whose turn in "for idx, tag_info in enumerate(found_tags)" has begun
Begun ==
    IF pc \in {"folders", "tag"} THEN mat.idx + 1
    ELSE IF pc \in {"return", "done"} THEN mat.idx
    ELSE 0

\* C24 as stated: after n tags the run has made n div chunk_size pauses and
\* as many progress reports.
C24_Original ==
    Materialized =>
        /\ mat.sleeps = Len(job_tags) \div cfg.chunk_size
        /\ mat.progress = Len(job_tags) \div cfg.chunk_size

\* C24 (amended): the run goes through the tags in order and pauses once
\* after every chunk_size-th tag, the last tag included, and nowhere else: at
\* every point it has made (tags done) div chunk_size pauses, n div chunk_size
\* at the end.  The progress message is tied to the constant 50 and not to
\* chunk_size: it is written before every 50th tag, so (tags begun) div 50
\* messages have been written.
C24_BatchPacing ==
    /\ Materializing =>
          /\ mat.idx <= Len(job_tags)
          /\ mat.sleeps = mat.idx \div cfg.chunk_size
          /\ mat.progress = Begun \div ProgressEvery
    /\ Materialized =>
          /\ mat.idx = Len(job_tags)
          /\ mat.sleeps = Len(job_tags) \div cfg.chunk_size
          /\ mat.progress = Len(job_tags) \div ProgressEvery

\* 51 tags in chunks of 7: seven pauses and one progress message
C24_Witness ==
    /\ pc = "done"
    /\ ns = NsMany
    /\ cfg.chunk_size = SmallChunk
    /\ Len(job_tags) = ProgressEvery + ExtraLeaves
    /\ mat.sleeps = (ProgressEvery + ExtraLeaves) \div SmallChunk
    /\ mat.sleeps > 1
    /\ mat.progress = 1

----------------------------------------------------------------------------
(* C25 *)

\* the folders of the root path: every prefix of its non-blank segments
RootSegmentPaths ==
    LET parts == Split(TagPath(NestedRootPath(<<>>, Split(cfg.root_folder))))
    IN {Join(SubSeq(parts, 1, k)) : k \in 1..Len(parts)}

\* C25 as stated: the root path is handled segment by segment from the top,
\* each segment configured as a folder only when the check does not find it
\* and only after the segment above it was created or found in the run; the
\* tags are placed below the deepest segment.
C25_Original ==
    /\ \A i \in 1..Len(store_calls) :
          (/\ store_calls[i].op = "configure"
           /\ store_calls[i].tagType = "Folder"
           /\ store_calls[i].path \in RootSegmentPaths
           /\ Len(Split(store_calls[i].path)) > 1) =>
              FolderEstablishedBefore(i, ParentOf(store_calls[i].path))
    /\ Materialized =>
          /\ RootSegmentPaths \subseteq RunChecked
          /\ \A t \in Range(job_tags) :
                TagPath(LiveTagPath(t)) =
                    TagPath(NestedRootPath(<<>>, Split(cfg.root_folder)) \o <<"/">>
                            \o t.relative_path)

\* In the ui script, when no configure call raises, the root is handled as
\* stated.
NestedRootWithoutFault ==
    (variant = "ui" /\ NoWriteFault) => C25_Original

----------------------------------------------------------------------------
(* C26 *)

\* the probes of the run in progress
RunProbes == SelectSeq(RunBrowseCalls, LAMBDA c : c.kind = "probe")

\* the children the for loops of the run were handed and that are not skipped
ListedChildren ==
    LET oks == SelectSeq(QueueBrowses, LAMBDA c : c.outcome = "ok")
        Listed[k \in 0..Len(oks)] ==
            IF k = 0 THEN 0
            ELSE Listed[k - 1]
                 + Len(SelectSeq(ns.kids[oks[k].node], LAMBDA n : ~IsIgnored(ns.disp[n])))
    IN Listed[Len(oks)]

\* the children of the node being processed that are still to come
PendingChildren ==
    IF pc = "items" THEN Len(SelectSeq(items, LAMBDA n : ~IsIgnored(ns.disp[n]))) ELSE 0

\* C26: a child that does not match the filter is queued only after a probe of
\* it that succeeded and returned at least one child; a child whose probe
\* failed or returned nothing is neither queued nor recorded; and whatever the
\* probes answer, every listed child is handled: it is recorded or probed.
C26_ProbeClassification ==
    /\ \A n \in visited \ {BaseNode} :
          /\ ns.kids[n] # <<>>
          /\ ~MatchesSearch(SearchList(cfg.search_tag_names), ns.disp[n])
          /\ \E i \in 1..Len(RunProbes) :
                RunProbes[i].node = n /\ RunProbes[i].outcome = "ok"
    /\ QueuedNodes \subseteq visited
    /\ \A t \in Range(found_tags) :
          MatchesSearch(SearchList(cfg.search_tag_names), t.display_name)
    /\ \A i \in 1..Len(RunProbes) :
          ~MatchesSearch(SearchList(cfg.search_tag_names), ns.disp[RunProbes[i].node])
    /\ pc \in {"browse", "items"} =>
          Len(RunProbes) + Len(found_tags) = ListedChildren - PendingChildren

\* the probe of A raised, and its sibling B was still probed, queued and
\* searched
C26_Witness ==
    /\ ns = NsShared /\ cfg.search_tag_names = SearchCV /\ pc = "main"
    /\ \E i, j \in 1..Len(RunProbes) :
          /\ i < j
          /\ RunProbes[i].node = "a" /\ RunProbes[i].outcome = "raise"
          /\ RunProbes[j].node = "b" /\ RunProbes[j].outcome = "ok"
    /\ "a" \notin visited /\ "b" \in visited
    /\ \A t \in Range(found_tags) : t.relative_path[1] = "B"
    /\ Len(found_tags) = 2

----------------------------------------------------------------------------
(* C27 *)

\* the nodes whose display name is on the ignore-list
IgnoredNodes == {n \in NodeIds : ns.disp[n] = Props}

\* C27: a child named '#Properties' is never recorded, never probed and never
\* queued or browsed, also when the filter names '#Properties', and no
\* relative path of a recorded tag has '#Properties' as a segment.
C27_MetadataChildrenIgnored ==
    /\ \A t \in Range(found_tags) \cup Range(job_tags) :
          /\ t.node_id \notin IgnoredNodes
          /\ t.display_name # Props
          /\ Props \notin Range(t.relative_path)
    /\ \A i \in 1..Len(RunBrowseCalls) : RunBrowseCalls[i].node \notin IgnoredNodes
    /\ (visited \cup QueuedNodes) \cap IgnoredNodes = {}

\* the filter names '#Properties', Root and A both list the pseudo-folder, and
\* the walk returns A/CV alone
C27_Witness ==
    /\ ns = NsProps /\ cfg.search_tag_names = SearchWithProps /\ pc = "main"
    /\ \E i, j \in 1..Len(QueueBrowses) :
          /\ QueueBrowses[i].node = "r" /\ QueueBrowses[i].outcome = "ok"
          /\ QueueBrowses[j].node = "a" /\ QueueBrowses[j].outcome = "ok"
    /\ Len(job_tags) = 1
    /\ job_tags[1].relative_path = <<"A", "/", "CV">>

----------------------------------------------------------------------------
(* C29 *)

\* the folder a folder_cache key stands for is a folder of the store
CachedFolderExists(folder_key) ==
    /\ TagPath(folder_key) \in DOMAIN store
    /\ store[TagPath(folder_key)].tagType = "Folder"

\* C29 as stated: at every point of a live run, also after a folder create
\* call has failed, every path in folder_cache is a folder that exists in the
\* tag store.
C29_Original == \A folder_key \in mat.folder_cache : CachedFolderExists(folder_key)

\* When no configure call raises, every cached path is a folder of the store.
CacheHoldsFoldersWithoutFault == NoWriteFault => C29_Original

----------------------------------------------------------------------------
(* C30 *)

\* the nodes taken from the queue in the run in progress
TakenNodes == {QueueBrowses[i].node : i \in 1..Len(QueueBrowses)}

\* C30: every queued node is in visited, the base node is in visited from the
\* start, no node is in the queue twice or queued again after it was taken,
\* and each node is taken from the queue at most once: visited is exactly the
\* nodes taken so far plus the nodes waiting, each counted once.
C30_WorkQueueInvariant ==
    /\ QueuedNodes \subseteq visited
    /\ cfg.base_node_id \in visited
    /\ \A i, j \in 1..Len(browse_queue) :
          browse_queue[i][1] = browse_queue[j][1] => i = j
    /\ \A i, j \in 1..Len(QueueBrowses) :
          QueueBrowses[i].node = QueueBrowses[j].node => i = j
    /\ TakenNodes \cap QueuedNodes = {}
    /\ visited = TakenNodes \cup QueuedNodes
    /\ Len(QueueBrowses) = iteration_count

\* B lists its parent A and the base node again: both are probed as folders a
\* second time and neither is queued again
C30_Witness ==
    /\ ns = NsCycle /\ pc = "main" /\ browse_queue = <<>>
    /\ CountIn([i \in 1..Len(RunProbes) |-> RunProbes[i].node], {"a"}) = 2
    /\ \E i \in 1..Len(RunProbes) : RunProbes[i].node = "r" /\ RunProbes[i].outcome = "ok"
    /\ \A i \in 1..Len(RunProbes) : RunProbes[i].outcome = "ok"
    /\ [i \in 1..Len(QueueBrowses) |-> QueueBrowses[i].node] = <<"r", "a", "b">>

----------------------------------------------------------------------------
(* Two invocations of create_tags_from_list side by side on one gateway:    *)
(* each runs its own loop with its own locals, and between the              *)
(* system.tag.exists call and the system.tag.configure call of one          *)
(* invocation the other one may make store calls.                           *)

Jobs == {1, 2}

\* what the browse of a node A that lists two leaves named CV returns
RaceTags ==
    <<[node_id |-> "c2", display_name |-> "CV", relative_path |-> <<"A", "/", "CV">>],
      [node_id |-> "d", display_name |-> "CV", relative_path |-> <<"A", "/", "CV">>]>>

\* the invocations differ in DATA_TYPE
JobDataType(j) == IF j = 1 THEN cfg.data_type ELSE "Int4"

JobStart == [pc |-> "root", phase |-> "check", mat |-> MatInit]

\* where the invocation is: the folder or tag its next store call is about
JobIsFolder(J) == J.pc \in {"root", "folders"}

JobParent(J) == IF J.pc = "root" THEN <<>> ELSE J.mat.current_path

JobName(J) ==
    IF J.pc = "root" THEN cfg.root_folder
    ELSE IF J.pc = "folders" THEN Head(J.mat.folder_structure)
    ELSE <<job_tags[J.mat.idx + 1].display_name>>

\* full_path of create_folder_structure, full_tag_path of create_opc_tag
JobFullPath(J) ==
    IF JobIsFolder(J)
    THEN WithProvider(cfg.tag_provider, FolderPath(JobParent(J), JobName(J)))
    ELSE FullTagPath(cfg.tag_provider, JobParent(J), JobName(J))

\* config_parent of create_folder_structure, parent_path of create_opc_tag
JobConfigParent(J) ==
    IF JobIsFolder(J) THEN WithProvider(cfg.tag_provider, JobParent(J))
    ELSE TagParentPath(cfg.tag_provider, JobParent(J))

\* if system.tag.exists(...): return
JobNeedsCreate(J) ==
    IF JobIsFolder(J) THEN FolderNeedsCreate(store, JobFullPath(J))
    ELSE TagNeedsCreate(store, JobFullPath(J))

\* folder_config, tag_config
JobTag(j, J) ==
    IF JobIsFolder(J) THEN FolderTag
    ELSE OpcTag(cfg.opc_server, job_tags[J.mat.idx + 1].node_id, JobDataType(j))

\* the folder found in folder_cache: no store call is made
JobCached(J) ==
    J.pc = "folders"
    /\ ~CacheMiss(J.mat.folder_cache, FolderKey(J.mat.current_path, JobName(J)))

\* the invocation's locals once the call in progress has returned
JobAfter(J) ==
    IF J.pc = "root"
    THEN LET m == BeginTag([MatInit EXCEPT !.root_path = FolderPath(<<>>, cfg.root_folder),
                                             !.folders_created = 1])
         IN [pc |-> PcForTag(m), phase |-> "check", mat |-> m]
    ELSE IF J.pc = "folders"
    THEN LET rest == Tail(J.mat.folder_structure)
             m == IF JobCached(J)
                  THEN [J.mat EXCEPT !.folder_structure = rest,
                                     !.current_path = CachedPath(J.mat.current_path, JobName(J))]
                  ELSE [J.mat EXCEPT !.folder_structure = rest,
                                     !.current_path = FolderPath(J.mat.current_path, JobName(J)),
                                     !.folder_cache = @ \cup {FolderKey(J.mat.current_path,
                                                                        JobName(J))},
                                     !.folders_created = @ + 1]
         IN [pc |-> IF rest # <<>> THEN "folders" ELSE "tag", phase |-> "check", mat |-> m]
    ELSE LET counted == [J.mat EXCEPT !.tags_created = @ + 1,
                                      !.sleeps = @ + SleepsAfter(J.mat.idx, cfg.chunk_size),
                                      !.idx = @ + 1]
             last == J.mat.idx + 1 = Len(job_tags)
             m == IF last THEN counted ELSE BeginTag(counted)
         IN [pc |-> IF last THEN "done" ELSE PcForTag(m), phase |-> "check", mat |-> m]

\* One invocation reaches its next folder or tag and asks whether it exists.
JobCheck(j) ==
    /\ pc = "jobs"
    /\ jobs[j].pc # "done"
    /\ jobs[j].phase = "check"
    /\ IF JobCached(jobs[j])
       THEN /\ jobs' = [jobs EXCEPT ![j] = JobAfter(jobs[j])]
            /\ UNCHANGED store_calls
       ELSE /\ store_calls' = Append(store_calls,
                                     [ExistsCall(JobFullPath(jobs[j])) EXCEPT !.run = j])
            /\ jobs' = [jobs EXCEPT ![j] = IF JobNeedsCreate(jobs[j])
                                           THEN [jobs[j] EXCEPT !.phase = "create"]
                                           ELSE JobAfter(jobs[j])]
    /\ UNCHANGED <<twin, variant, cfg, ns, pc, run, faults, walkVars, job_tags, log,
                   browse_calls, store, store0, mat, preview, result>>

\* The invocation that found the path absent configures it.
JobCreate(j) ==
    /\ pc = "jobs"
    /\ jobs[j].phase = "create"
    /\ store' = TagConfigure(store, JobConfigParent(jobs[j]), JobName(jobs[j]),
                             JobTag(j, jobs[j]))
    /\ store_calls' = Append(store_calls,
                             [ConfigureCall(JobConfigParent(jobs[j]), JobName(jobs[j]),
                                            JobTag(j, jobs[j]).tagType, "ok")
                                  EXCEPT !.run = j])
    /\ jobs' = [jobs EXCEPT ![j] = JobAfter(jobs[j])]
    /\ UNCHANGED <<twin, variant, cfg, ns, pc, run, faults, walkVars, job_tags, log,
                   browse_calls, store0, mat, preview, result>>

\* both invocations are past their browse, with the same tags to create
RaceInit ==
    /\ variant = "cli"
    /\ ns = NsNested
    /\ cfg = Config(RootTarget, SearchCV, "Float8", DefaultChunkSize, DefaultMaxIterations,
                    FALSE)
    /\ pc = "jobs"
    /\ run = 1
    /\ faults = [browse |-> 0, write |-> 0]
    /\ browse_queue = <<>>
    /\ visited = {cfg.base_node_id}
    /\ found_tags = RaceTags
    /\ iteration_count = 0
    /\ current = <<cfg.base_node_id, <<>>>>
    /\ items = <<>>
    /\ job_tags = RaceTags
    /\ log = <<>>
    /\ browse_calls = <<>>
    /\ store = EmptyStore
    /\ store0 = store
    /\ store_calls = <<>>
    /\ mat = MatInit
    /\ preview = {}
    /\ result = Running
    /\ jobs = [j \in Jobs |-> JobStart]
    /\ twin = NoTwin

RaceNext == \E j \in Jobs : JobCheck(j) \/ JobCreate(j)

RaceSpec == RaceInit /\ [][RaceNext]_vars

----------------------------------------------------------------------------
(* C28 *)

\* the invocations ran one after the other: no store call of one lies
\* between two store calls of the other
Serialized ==
    \A i, j, k \in 1..Len(store_calls) :
        (i < j /\ j < k /\ store_calls[i].run = store_calls[k].run) =>
            store_calls[j].run = store_calls[i].run

\* create call i and the later create call k of another invocation are for
\* the same path
Duplicates(i, k) ==
    /\ i < k
    /\ store_calls[i].op = "configure" /\ store_calls[k].op = "configure"
    /\ store_calls[i].path = store_calls[k].path
    /\ store_calls[i].run # store_calls[k].run

DuplicateCreate == \E i, k \in 1..Len(store_calls) : Duplicates(i, k)

\* call i is the check on which create call k was issued
CheckOf(i, k) ==
    /\ i < k
    /\ store_calls[i].op = "exists"
    /\ store_calls[i].run = store_calls[k].run
    /\ store_calls[i].path = store_calls[k].path
    /\ \A m \in (i + 1)..(k - 1) : store_calls[m].run # store_calls[k].run

\* C28: every create call is issued on the invocation's own check of that
\* path; two invocations issue a create call for the same path only when both
\* checked it before either created it, which takes interleaved store calls:
\* when the invocations are serialized no path is created twice.
C28_DuplicateCreateOnlyWhenInterleaved ==
    /\ \A k \in 1..Len(store_calls) :
          store_calls[k].op = "configure" => \E i \in 1..Len(store_calls) : CheckOf(i, k)
    /\ \A i, k \in 1..Len(store_calls) :
          Duplicates(i, k) =>
              \E c \in 1..Len(store_calls) : c < i /\ CheckOf(c, k)
    /\ Serialized => ~DuplicateCreate

\* both invocations found T/A/CV absent, the first created it as Float8 and
\* the second overwrote it as Int4
C28_Witness ==
    /\ \A j \in Jobs : jobs[j].pc = "done"
    /\ ~Serialized
    /\ \E c1, c2, i, k \in 1..Len(store_calls) :
          /\ store_calls[k].path = <<"T", "/", "A", "/", "CV">>
          /\ store_calls[i].run = 1 /\ store_calls[k].run = 2
          /\ Duplicates(i, k)
          /\ CheckOf(c1, i) /\ CheckOf(c2, k) /\ c2 < i
    /\ store[<<"T", "/", "A", "/", "CV">>].dataType = JobDataType(2)
    /\ JobDataType(1) # JobDataType(2)

----------------------------------------------------------------------------
(* C31 *)

\* C31 as stated: in one run the browseServer calls, folder probes and queue
\* browses counted together, are at most max_iterations.
C31_Original == Len(RunBrowseCalls) <= cfg.max_iterations

\* max_iterations bounds the queue browses, one per iteration of the while
\* loop; a folder probe is a further call that the limit does not count, at
\* most one for every non-ignored child the queue browses listed.
LimitBoundsQueueBrowses ==
    /\ Len(QueueBrowses) = iteration_count
    /\ iteration_count <= cfg.max_iterations
    /\ Len(RunProbes) <= ListedChildren - PendingChildren
    /\ Len(RunBrowseCalls) = Len(QueueBrowses) + Len(RunProbes)

----------------------------------------------------------------------------
(* C32 *)

\* the folder create calls of the run in progress that succeeded
RunFoldersMade == SelectSeq(RunFolderCreates, LAMBDA c : c.outcome = "ok")

\* the existence checks of the run in progress
RunExistsCalls == SelectSeq(RunStoreCalls, LAMBDA c : c.op = "exists")

\* C32 as stated: the folders_created count a live run returns is the number
\* of folder create calls of that run that succeeded; folders found to exist
\* and folders whose create call raised are not counted.
C32_Original ==
    (pc = "done" /\ Materialized) => result.folders_created = Len(RunFoldersMade)

\* What folders_created counts is the folders the run went through: one for
\* every existence check that is not the check of a discovered tag.
FoldersCreatedCountsChecks ==
    (pc = "done" /\ Materialized) =>
        result.folders_created = Len(RunExistsCalls) - Len(job_tags)

----------------------------------------------------------------------------
(* C33 *)

\* the tag create calls of the run in progress that succeeded
RunTagsMade ==
    SelectSeq(RunStoreCalls,
              LAMBDA c : c.op = "configure" /\ c.tagType = "AtomicTag" /\ c.outcome = "ok")

\* C33 as stated: the tags_created count a live run returns is the number of
\* tag create calls of that run that succeeded; tags found to exist, a second
\* discovered tag of the same path among them, and tags whose create call
\* raised are not counted.
C33_Original ==
    (pc = "done" /\ Materialized) => result.tags_created = Len(RunTagsMade)

\* What tags_created counts is the discovered tags whose create call did not
\* raise, those found to exist included.
TagsCreatedCountsNonFailures ==
    (pc = "done" /\ Materialized) =>
        result.tags_created = Len(job_tags) - Len(RunFailedTagCreates)

----------------------------------------------------------------------------
(* C34 *)

\* C34 as stated: the list the browse returns never holds two entries with the
\* same node id, also when a leaf is listed by more than one folder or more
\* than once by one folder.
C34_Original ==
    \A i, j \in 1..Len(found_tags) :
        found_tags[i].node_id = found_tags[j].node_id => i = j

\* The returned list has one entry for every listing of a matching child the
\* for loops went through: as many entries as such listings.
OneEntryPerListing ==
    LET matching == {n \in NodeIds :
                        ~IsIgnored(ns.disp[n])
                        /\ MatchesSearch(SearchList(cfg.search_tag_names), ns.disp[n])}
        pending == IF pc = "items" THEN CountIn(items, matching) ELSE 0
        Listed[k \in 0..Len(QueueBrowses)] ==
            IF k = 0 THEN 0
            ELSE Listed[k - 1]
                 + (IF QueueBrowses[k].outcome = "ok"
                    THEN CountIn(ns.kids[QueueBrowses[k].node], matching) ELSE 0)
    IN pc \in {"browse", "items", "main"} =>
           Len(found_tags) = Listed[Len(QueueBrowses)] - pending

----------------------------------------------------------------------------
(* C35 *)

\* how many times the run has logged the iteration-limit warning
LimitWarnings == Len(SelectSeq(log, LAMBDA e : e = LimitWarning))

\* C35 as stated: the browse logs the iteration-limit warning if and only if
\* it stopped with a node left in the queue; a browse that emptied its queue
\* never logs it.
C35_Original ==
    Browsed => (LimitWarning \in Range(log) <=> browse_queue # <<>>)

\* C35 (amended): the browse logs the warning, once, if and only if it made
\* max_iterations iterations: whenever it stopped with a node left in the
\* queue, and also when the queue became empty with the max_iterations-th
\* iteration; a browse that ended below the limit never logs it.
C35_WarningIffLimitReached ==
    /\ Browsed =>
          /\ LimitWarnings = (IF iteration_count = cfg.max_iterations THEN 1 ELSE 0)
          /\ browse_queue # <<>> => iteration_count = cfg.max_iterations
          /\ iteration_count < cfg.max_iterations => browse_queue = <<>>
    /\ ~Browsed => LimitWarnings = 0

\* Root, A and B were browsed with a limit of three iterations: the queue is
\* empty, both tags are returned and the warning is logged all the same
C35_Witness ==
    /\ pc = "main" /\ ns = NsScenario
    /\ cfg.max_iterations = Len(QueueBrowses)
    /\ [i \in 1..Len(QueueBrowses) |-> QueueBrowses[i].node] = <<"r", "a", "b">>
    /\ browse_queue = <<>>
    /\ Len(job_tags) = 2
    /\ LimitWarning \in Range(log)

----------------------------------------------------------------------------
(* C36 *)

\* the browse of the run in progress returned no tag
NothingDiscovered == Browsed /\ Len(job_tags) = 0

\* C36: when the browse returns no tag the job returns success False with
\* tags_found 0 and makes no call on the tag store, no existence check and no
\* root folder among them, in a dry run as in a live run; the store keeps its
\* content and nothing is previewed.
C36_EmptyDiscoveryLeavesStoreUntouched ==
    NothingDiscovered =>
        /\ pc \in {"main", "done"}
        /\ RunStoreCalls = <<>>
        /\ store = store0
        /\ mat = MatInit
        /\ preview = {}
        /\ pc = "done" => result = [success |-> FALSE, tags_found |-> 0]

\* a live job whose browse of the base node raised
C36_Witness ==
    /\ pc = "done" /\ NothingDiscovered
    /\ ~cfg.dry_run /\ cfg.opc_server # NoServer
    /\ ns = NsScenario
    /\ Len(RunBrowseCalls) = 1 /\ RunBrowseCalls[1].outcome = "raise"
    /\ result.success = FALSE /\ result.tags_found = 0
    /\ store_calls = <<>>

\* a dry-run job on a namespace without tags
C36_WitnessDryRun ==
    /\ pc = "done" /\ NothingDiscovered
    /\ cfg.dry_run /\ ns = NsEmpty
    /\ result.success = FALSE

----------------------------------------------------------------------------
(* C37 *)

\* the path of call i of the run was not in the store when the call was made
AbsentAt(i) ==
    /\ RunStoreCalls[i].path \notin DOMAIN store0
    /\ \A k \in 1..(i - 1) :
          ~(/\ RunStoreCalls[k].op = "configure"
            /\ RunStoreCalls[k].outcome = "ok"
            /\ RunStoreCalls[k].path = RunStoreCalls[i].path)

\* call i of the run reads the value of a discovered tag whose path was just
\* checked and found absent, and the create call of that tag follows it
ReadBetweenCheckAndCreate(i) ==
    /\ 1 < i /\ i < Len(RunStoreCalls)
    /\ RunStoreCalls[i - 1].op = "exists"
    /\ AbsentAt(i - 1)
    /\ RunStoreCalls[i + 1].op = "configure"
    /\ RunStoreCalls[i + 1].tagType = "AtomicTag"
    /\ RunStoreCalls[i + 1].path = RunStoreCalls[i - 1].path
    /\ \E t \in Range(job_tags) :
          /\ t.node_id = RunStoreCalls[i].node
          /\ TagPath(LiveTagPath(t)) = RunStoreCalls[i - 1].path

\* With the data type auto-detected a value is read for an entry of the
\* discovered list only when the check has just found its path absent, once
\* for that entry, and the read comes right before the entry's create call; a
\* run on a store that holds every tag path already reads no value.
ReadOnlyForAbsentTags ==
    /\ \A i \in 1..Len(RunStoreCalls) :
          RunStoreCalls[i].op = "readValue" => ReadBetweenCheckAndCreate(i)
    /\ Materializing => Len(RunReads) <= mat.idx /\ mat.idx <= Len(job_tags)
    /\ (Materializing /\ LiveTagPaths \subseteq DOMAIN store0) => RunReads = <<>>

\* how many values the run in progress has read from the node n
ReadsOf(n) == Len(SelectSeq(RunReads, LAMBDA c : c.node = n))

\* C37 as stated: with the data type auto-detected a value is read for a leaf
\* only when its path does not exist yet, at most once for the leaf in a run,
\* and before the leaf's create call; a re-run on an unchanged store reads no
\* value.
C37_Original ==
    /\ ReadOnlyForAbsentTags
    /\ \A n \in NodeIds : ReadsOf(n) <= 1

----------------------------------------------------------------------------
(* browse_opc_iterative and browse_opc_iterative_ui on the same inputs: the  *)
(* console script's walk runs first, then the ui script's walk runs from the *)
(* same base node with the same filter and limit, and every browseServer     *)
(* call it makes is answered as the call in the same position of the first   *)
(* walk was.                                                                  *)

\* the first walk has returned: keep what it called and returned, and start
\* browse_opc_iterative_ui with the same arguments
SecondWalk ==
    /\ twin.phase = "first"
    /\ pc = "main"
    /\ twin' = [phase |-> "second", faults |-> twin.faults, calls |-> browse_calls,
                found_tags |-> job_tags]
    /\ variant' = "ui"
    /\ faults' = twin.faults
    /\ pc' = "browse"
    /\ browse_queue' = <<<<cfg.base_node_id, <<>>>>>>
    /\ visited' = {cfg.base_node_id}
    /\ found_tags' = <<>>
    /\ iteration_count' = 0
    /\ current' = <<cfg.base_node_id, <<>>>>
    /\ items' = <<>>
    /\ job_tags' = <<>>
    /\ log' = <<>>
    /\ browse_calls' = <<>>
    /\ UNCHANGED <<jobs, cfg, ns, run, store, store0, store_calls, mat, preview, result>>

PairInit ==
    /\ InitBrowse
    /\ variant = "cli"
    /\ pc = "browse"
    /\ run = 1
    /\ browse_queue = <<<<cfg.base_node_id, <<>>>>>>
    /\ visited = {cfg.base_node_id}
    /\ found_tags = <<>>
    /\ iteration_count = 0
    /\ current = <<cfg.base_node_id, <<>>>>
    /\ items = <<>>
    /\ job_tags = <<>>
    /\ log = <<>>
    /\ browse_calls = <<>>
    /\ store0 = store
    /\ store_calls = <<>>
    /\ mat = MatInit
    /\ preview = {}
    /\ result = Running
    /\ jobs = <<>>
    /\ twin = [phase |-> "first", faults |-> faults]

PairNext == BrowseNext \/ ProcessItem \/ BrowseReturn \/ SecondWalk

PairSpec == PairInit /\ [][PairNext]_vars

----------------------------------------------------------------------------
(* C38 *)

\* the (node_id, display_name, relative_path) entries of a list of tags
Entries(tags) ==
    [i \in 1..Len(tags) |->
        [node_id |-> tags[i].node_id, display_name |-> tags[i].display_name,
         relative_path |-> tags[i].relative_path]]

====
